---- MODULE Spec2Model ----
(***************************************************************************)
(* Model of the OpenAI-compatible server of the VS Code extension:         *)
(*   - ModelManager (model resolver with alias cache),                     *)
(*   - ChatController + StreamHandler (/v1/chat/completions),              *)
(*   - ResponsesController + ResponsesStreamHandler (/v1/responses),       *)
(*   - ServerManager (start / stop of the HTTP listener, port recovery).   *)
(* Every request is one asynchronous task; an action of the model is the   *)
(* code that runs between two awaits of that task.                         *)
(***************************************************************************)
EXTENDS Integers, Sequences, FiniteSets, TLC

VARIABLES
    upstream,           \* models the language-model API offers, in its order
    defaultModel,       \* configuration value openaiCompatibleServer.defaultModel
    lmAvailable,        \* whether vscode.lm exists
    cachedModels,       \* ModelManager.cachedModels : key -> model
    lastSelectedModel,  \* ModelManager.lastSelectedModel (the model, or NoModel)
    pc,                 \* per request slot: position of the task
    gm,                 \* per request slot: locals of getModel
    calls,              \* per request slot: upstream calls issued for the request
    started,            \* number of requests / resolve calls started so far
    body,               \* per request slot: the request body
    ctl,                \* per request slot: locals of the controller
    res,                \* per request slot: the HTTP response
    faulted,            \* history: an upstream call of the resolver raised or failed
    probed,             \* history: ids of the models whose connectivity probe succeeded
    server,             \* ServerManager.server: index of a listener, or 0 (undefined)
    listeners,          \* the HttpServer objects created by app.listen, in order
    portTaken,          \* another process holds the port
    statusBar,          \* what StatusBarManager shows
    lpc,                \* per caller: position of its start() / stop() call
    lctl,               \* per caller: locals of its start() / stop() call
    cleanup,            \* listeners whose close a detached ensureServerStopped awaits
    lstarted            \* number of start() / stop() calls made so far

vars == <<upstream, defaultModel, lmAvailable, cachedModels, lastSelectedModel,
          pc, gm, calls, started, body, ctl, res, faulted, probed,
          server, listeners, portTaken, statusBar, lpc, lctl, cleanup, lstarted>>

lifecycleVars == <<server, listeners, portTaken, statusBar, lpc, lctl, cleanup, lstarted>>

resolverVars == <<cachedModels, lastSelectedModel, gm, faulted, probed>>
envVars == <<upstream, defaultModel, lmAvailable>>

-----------------------------------------------------------------------------
(* Bounds *)

MaxStarted == 2      \* requests (or resolve calls) started in one behaviour
MaxFrags == 2        \* fragments one upstream response yields
MaxCalls == 3        \* start() / stop() calls made in one behaviour
MaxBinds == 3        \* bind attempts (calls of app.listen) in one behaviour
MaxTokens == 3       \* largest token count handed to the formatter on its own
MaxMessages == 2     \* entries of an array given as `input` or as `messages`
MaxModels == 2       \* models the upstream API lists for GET /v1/models
MaxClock == 1        \* seconds that may pass while GET /v1/models is repeated
MaxParts == 2        \* parts of an array given as the content of a message

Req == {1, 2}        \* request slots (tasks that may be in flight together)

-----------------------------------------------------------------------------
(* Values *)

None == "none"       \* undefined / null / absent

NoModel == [id |-> None, family |-> None]

Claude == [id |-> "claude-sonnet-4.5", family |-> "claude-sonnet-4.5"]
Gpt5 == [id |-> "gpt-5", family |-> "gpt-5"]
Gpt5Mini == [id |-> "gpt-5-mini", family |-> "gpt-5"]
Codex == [id |-> "gpt-5-codex", family |-> "gpt-5-codex"]

\* Lists the upstream API may offer (fixed for one behaviour).
UpstreamChoices ==
    { <<>>, <<Claude>>, <<Claude, Gpt5>>, <<Gpt5Mini, Claude>>, <<Codex, Gpt5>>,
      <<Gpt5Mini, Gpt5>> }

DefaultModelChoices == {"claude-sonnet-4.5", ""}

\* Values of the request field `model` (None: field absent).
RequestedModels == {None, " GPT-5-High ", "gpt-5", "o3"}

\* String.prototype.trim on the strings of the model.
Trim(s) == IF s = " GPT-5-High " THEN "GPT-5-High" ELSE s

\* String.prototype.toLowerCase on the strings of the model.
ToLower(s) == IF s = "GPT-5-High" THEN "gpt-5-high" ELSE s

GPT5_BASE_IDS == <<"gpt-5", "openai/gpt-5">>
GPT5_CODEX_BASE_IDS == <<"gpt-5-codex", "openai/gpt-5-codex">>

MODEL_PRESETS ==
    << [id |-> "gpt-5-high", baseModelIds |-> GPT5_BASE_IDS, effort |-> "high",
        displayName |-> "GPT-5 (High Reasoning)"],
       [id |-> "gpt-5-medium", baseModelIds |-> GPT5_BASE_IDS, effort |-> "medium",
        displayName |-> "GPT-5 (Medium Reasoning)"],
       [id |-> "gpt-5-low", baseModelIds |-> GPT5_BASE_IDS, effort |-> "low",
        displayName |-> "GPT-5 (Low Reasoning)"],
       [id |-> "gpt-5-codex-high", baseModelIds |-> GPT5_CODEX_BASE_IDS, effort |-> "high",
        displayName |-> "GPT-5 Codex (High Reasoning)"],
       [id |-> "gpt-5-codex-medium", baseModelIds |-> GPT5_CODEX_BASE_IDS,
        effort |-> "medium", displayName |-> "GPT-5 Codex (Medium Reasoning)"],
       [id |-> "gpt-5-codex-low", baseModelIds |-> GPT5_CODEX_BASE_IDS, effort |-> "low",
        displayName |-> "GPT-5 Codex (Low Reasoning)"] >>

NoPreset == [id |-> None, baseModelIds |-> <<>>, effort |-> None, displayName |-> None]

Range(seq) == {seq[i] : i \in 1..Len(seq)}

\* Array.prototype.find: the first element of seq that is in the set of the
\* elements satisfying the test, or the given default.
Find(seq, satisfying, dflt) ==
    IF \E i \in 1..Len(seq) : seq[i] \in satisfying
    THEN seq[CHOOSE i \in 1..Len(seq) :
                 seq[i] \in satisfying /\ \A j \in 1..(i - 1) : seq[j] \notin satisfying]
    ELSE dflt

resolveModelPreset(modelId) ==
    IF modelId = None \/ modelId = ""
    THEN NoPreset
    ELSE LET normalized == ToLower(Trim(modelId))
             Matches(p) == ToLower(p.id) = normalized
         IN Find(MODEL_PRESETS, {p \in Range(MODEL_PRESETS) : Matches(p)}, NoPreset)

-----------------------------------------------------------------------------
(* ModelManager.getModel *)

\* preferredModelId?.trim(), "" when the id is absent or blank
TrimmedPreferred(preferred) == IF preferred = None THEN "" ELSE Trim(preferred)

NonEmptyTrimmed(ids) ==
    SelectSeq([i \in 1..Len(ids) |-> Trim(ids[i])], LAMBDA id : id # "")

trimmedPreferredIds(preferred) ==
    LET preset == resolveModelPreset(preferred)
    IN IF preset # NoPreset
       THEN NonEmptyTrimmed(preset.baseModelIds)
       ELSE IF TrimmedPreferred(preferred) # ""
            THEN <<TrimmedPreferred(preferred)>>
            ELSE <<>>

\* Insertion into a JavaScript Set kept as a duplicate-free sequence.
SetAdd(seq, x) == IF x \in Range(seq) THEN seq ELSE Append(seq, x)

RECURSIVE SetAddAll(_, _)
SetAddAll(seq, xs) ==
    IF xs = <<>> THEN seq ELSE SetAddAll(SetAdd(seq, Head(xs)), Tail(xs))

cacheLookupIds(preferred, dflt) ==
    LET preset == resolveModelPreset(preferred)
        s1 == IF TrimmedPreferred(preferred) # ""
              THEN <<TrimmedPreferred(preferred)>> ELSE <<>>
        s2 == IF preset # NoPreset THEN SetAdd(s1, preset.id) ELSE s1
        s3 == SetAddAll(s2, trimmedPreferredIds(preferred))
    IN IF Trim(dflt) # "" THEN SetAdd(s3, Trim(dflt)) ELSE s3

\* A lookup that consults the first id of the lookup set only.
FirstCachedHeadOnly(ids, cache) ==
    IF ids # <<>> /\ ids[1] \in DOMAIN cache THEN cache[ids[1]] ELSE NoModel

\* The first lookup id that is a key of the cache (its model), or NoModel.
FirstCached(ids, cache) ==
    LET Cached(id) == id \in DOMAIN cache
        hit == Find(ids, {id \in Range(ids) : Cached(id)}, None)
    IN IF hit = None THEN NoModel ELSE cache[hit]

IdFamilyPairs(ids) ==
    [i \in 1..(2 * Len(ids)) |->
        IF i % 2 = 1 THEN [kind |-> "id", v |-> ids[(i + 1) \div 2]]
                     ELSE [kind |-> "family", v |-> ids[i \div 2]]]

\* A selector list that asks for the family before the exact id.
buildSelectorsFamilyFirst(preferred, dflt) ==
    LET ids == trimmedPreferredIds(preferred)
        d == Trim(dflt)
        FamilyIdPairs(xs) ==
            [i \in 1..(2 * Len(xs)) |->
                IF i % 2 = 1 THEN [kind |-> "family", v |-> xs[(i + 1) \div 2]]
                             ELSE [kind |-> "id", v |-> xs[i \div 2]]]
    IN FamilyIdPairs(ids)
       \o (IF d \notin Range(ids) /\ d # "" THEN FamilyIdPairs(<<d>>) ELSE <<>>)
       \o << [kind |-> "any", v |-> None] >>

buildSelectors(preferred, dflt) ==
    LET ids == trimmedPreferredIds(preferred)
        d == Trim(dflt)
    IN IdFamilyPairs(ids)
       \o (IF d \notin Range(ids) /\ d # "" THEN IdFamilyPairs(<<d>>) ELSE <<>>)
       \o << [kind |-> "any", v |-> None] >>

\* vscode.lm.selectChatModels(selector) when it does not raise
selectChatModels(selector, up) ==
    CASE selector.kind = "id" -> SelectSeq(up, LAMBDA m : m.id = selector.v)
      [] selector.kind = "family" -> SelectSeq(up, LAMBDA m : m.family = selector.v)
      [] OTHER -> up

\* trimmedPreferredIds[0] ?? preferredModelId?.trim()
selectionPreferredId(preferred) ==
    IF trimmedPreferredIds(preferred) # <<>>
    THEN trimmedPreferredIds(preferred)[1]
    ELSE TrimmedPreferred(preferred)

candidateIdOf(selector, preferred) ==
    IF selector.kind = "any" THEN selectionPreferredId(preferred) ELSE selector.v

\* A pick that takes the first model whatever the ids.
selectModelFromListHead(models, preferredModelId, fallbackId) == models[1]

selectModelFromList(models, preferredModelId, fallbackId) ==
    LET trimmedPreferred == Trim(preferredModelId)
        trimmedFallback == Trim(fallbackId)
        IsPreferred(m) == m.id = trimmedPreferred \/ m.family = trimmedPreferred
        IsFallback(m) == m.id = trimmedFallback \/ m.family = trimmedFallback
        match == IF trimmedPreferred # ""
                 THEN Find(models, {m \in Range(models) : IsPreferred(m)}, NoModel)
                 ELSE NoModel
        fallbackMatch == IF trimmedFallback # "" /\ trimmedFallback # trimmedPreferred
                         THEN Find(models, {m \in Range(models) : IsFallback(m)}, NoModel)
                         ELSE NoModel
    IN IF match # NoModel THEN match
       ELSE IF fallbackMatch # NoModel THEN fallbackMatch
       ELSE models[1]

\* A probe is made only while no model has been selected yet.
needsProbeFirstOnly(last, model) == last = NoModel

\* ensureModelReady: is a probe (testModel) needed for this model?
needsProbe(last, model) == last = NoModel \/ last.id # model.id

Put(cache, k, m) == [x \in DOMAIN cache \cup {k} |-> IF x = k THEN m ELSE cache[x]]

RECURSIVE PutAll(_, _, _)
PutAll(cache, ks, m) ==
    IF ks = <<>> THEN cache ELSE PutAll(Put(cache, Head(ks), m), Tail(ks), m)

\* A cache update that records the model under its id only.
cacheModelIdOnly(cache, model) == Put(cache, model.id, model)

cacheModel(cache, model) ==
    LET c1 == Put(cache, model.id, model)
    IN IF model.family # "" THEN Put(c1, model.family, model) ELSE c1

\* A cache update that records the preset id but not the preset's base ids.
cacheSelectedNoBaseIds(cache, preferred, selected) ==
    LET preset == resolveModelPreset(preferred)
        c1 == cacheModel(cache, selected)
        c2 == IF TrimmedPreferred(preferred) # ""
              THEN Put(c1, TrimmedPreferred(preferred), selected) ELSE c1
    IN IF preset # NoPreset THEN Put(c2, preset.id, selected) ELSE c2

\* The cache writes of getModel after a fresh selection (cacheModel included).
cacheSelected(cache, preferred, selected) ==
    LET preset == resolveModelPreset(preferred)
        c1 == cacheModel(cache, selected)
        c2 == IF TrimmedPreferred(preferred) # ""
              THEN Put(c1, TrimmedPreferred(preferred), selected) ELSE c1
    IN IF preset # NoPreset
       THEN Put(PutAll(c2, NonEmptyTrimmed(preset.baseModelIds), selected),
                preset.id, selected)
       ELSE c2

\* Locals of one getModel call.
NoGm == [preferred |-> None, idx |-> 0, selected |-> NoModel, probing |-> FALSE,
         result |-> NoModel, hit |-> FALSE]

Log(r, what) == calls' = [calls EXCEPT ![r] = Append(@, what)]

\* getModel up to its cache lookup: vscode.lm check, lookup ids, cache hit.
GetModelStart(r) ==
    /\ pc[r] = "gm_call"
    /\ IF ~lmAvailable
       THEN /\ pc' = [pc EXCEPT ![r] = "gm_fail"]
            /\ UNCHANGED <<gm, lastSelectedModel>>
       ELSE LET cached == FirstCached(cacheLookupIds(gm[r].preferred, defaultModel),
                                      cachedModels)
            IN IF cached # NoModel
               THEN /\ lastSelectedModel' = cached
                    /\ gm' = [gm EXCEPT ![r].result = cached, ![r].hit = TRUE]
                    /\ pc' = [pc EXCEPT ![r] = "gm_ret"]
               ELSE /\ gm' = [gm EXCEPT ![r].idx = 1]
                    /\ pc' = [pc EXCEPT ![r] = "gm_select"]
                    /\ UNCHANGED lastSelectedModel
    /\ UNCHANGED <<lifecycleVars, envVars, cachedModels, calls, started, body, ctl, res, faulted,
                   probed>>

\* The position after selector idx is given up (continue / catch of the loop).
NextSelector(r, fault) ==
    /\ faulted' = (faulted \/ fault)
    /\ probed' = probed
    /\ IF gm[r].idx < Len(buildSelectors(gm[r].preferred, defaultModel))
       THEN /\ pc' = [pc EXCEPT ![r] = "gm_select"]
            /\ gm' = [gm EXCEPT ![r].idx = @ + 1, ![r].selected = NoModel,
                                ![r].probing = FALSE]
       ELSE /\ pc' = [pc EXCEPT ![r] = "gm_fail"]
            /\ gm' = [gm EXCEPT ![r].selected = NoModel, ![r].probing = FALSE]

\* One iteration of the selector loop up to `await ensureModelReady`.
GetModelSelect(r) ==
    /\ pc[r] = "gm_select"
    /\ Log(r, "select")
    /\ \E raised \in BOOLEAN :
         LET selector == buildSelectors(gm[r].preferred, defaultModel)[gm[r].idx]
             models == selectChatModels(selector, upstream)
         IN IF raised \/ models = <<>>
            THEN NextSelector(r, raised)
            ELSE LET selected == selectModelFromList(models,
                                     candidateIdOf(selector, gm[r].preferred),
                                     defaultModel)
                 IN /\ gm' = [gm EXCEPT ![r].selected = selected,
                                        ![r].probing = needsProbe(lastSelectedModel, selected)]
                    /\ pc' = [pc EXCEPT ![r] = "gm_ready"]
                    /\ UNCHANGED <<faulted, probed>>
    /\ UNCHANGED <<lifecycleVars, envVars, cachedModels, lastSelectedModel, started, body, ctl, res>>

\* testModel is issued (when needed) as soon as ensureModelReady is called.
GetModelProbe(r) ==
    /\ pc[r] = "gm_ready"
    /\ gm[r].probing
    /\ Log(r, "probe")
    /\ \E ok \in BOOLEAN :
         IF ok
         THEN /\ gm' = [gm EXCEPT ![r].probing = FALSE]
              /\ probed' = probed \cup {gm[r].selected.id}
              /\ UNCHANGED <<pc, faulted>>
         ELSE NextSelector(r, TRUE)
    /\ UNCHANGED <<lifecycleVars, envVars, cachedModels, lastSelectedModel, started, body, ctl, res>>

\* After ensureModelReady: cache the model under its aliases and return it.
GetModelCache(r) ==
    /\ pc[r] = "gm_ready"
    /\ ~gm[r].probing
    /\ cachedModels' = cacheSelected(cachedModels, gm[r].preferred, gm[r].selected)
    /\ lastSelectedModel' = gm[r].selected
    /\ gm' = [gm EXCEPT ![r].result = gm[r].selected, ![r].hit = FALSE]
    /\ pc' = [pc EXCEPT ![r] = "gm_ret"]
    /\ UNCHANGED <<lifecycleVars, envVars, calls, started, body, ctl, res, faulted, probed>>

GetModel(r) ==
    \/ GetModelStart(r)
    \/ GetModelSelect(r)
    \/ GetModelProbe(r)
    \/ GetModelCache(r)

-----------------------------------------------------------------------------
(* Texts, the upstream response and the HTTP response *)

\* A text is a sequence of characters.
UndefinedText == <<"u", "n", "d", "e", "f", "i", "n", "e", "d">>   \* String(undefined)

\* Fragments an upstream response may yield ('' included).
FragChoices == { <<>>, <<"a">>, <<"b", "c">> }

RECURSIVE Concat(_)
Concat(frags) == IF frags = <<>> THEN <<>> ELSE Head(frags) \o Concat(Tail(frags))

\* model.countTokens when it does not raise (the upstream tokenizer: one token
\* per character, as in the repository's test double).
countTokens(text) == Len(text)

\* `acc += value` on a string accumulator: undefined is appended as "undefined".
StringAppend(acc, result) ==
    IF result.done THEN acc \o UndefinedText ELSE acc \o result.value

NoBody == [endpoint |-> None]

NoCtl == [model |-> NoModel, resolvedModelId |-> None, responseModelId |-> None,
          messages |-> <<>>, stream |-> FALSE, promptTokens |-> 0,
          upFrags |-> <<>>, drained |-> FALSE, counted |-> FALSE,
          text |-> <<>>, sequenceNumber |-> 0]

\* An HTTP response: status 0 while no status line has been produced.
NoRes == [status |-> 0, sse |-> FALSE, writes |-> <<>>, ended |-> 0, late |-> 0]

\* res.write
Write(rs, w) ==
    IF rs.ended > 0
    THEN [rs EXCEPT !.late = @ + 1]
    ELSE [rs EXCEPT !.writes = Append(@, w), !.status = IF @ = 0 THEN 200 ELSE @]

\* res.end
End(rs) == [rs EXCEPT !.ended = @ + 1, !.status = IF @ = 0 THEN 200 ELSE @]

\* res.status(code).json(payload)
Json(rs, code, payload) == End(Write([rs EXCEPT !.status = code], payload))

Err(message) == [message |-> message, index |-> -1]

createErrorResponse(error) ==
    [kind |-> "error", message |-> error.message, index |-> error.index,
     type |-> "server_error"]

-----------------------------------------------------------------------------
(* ResponseFormatter: chat completions *)

NoUsage == [present |-> FALSE, prompt_tokens |-> 0, completion_tokens |-> 0,
            total_tokens |-> 0]

\* createStreamChunk(modelId, fragment, isInitial, isFinal, usage); an absent
\* fragment and '' are both falsy and are passed as the empty text.
createStreamChunk(modelId, fragment, isInitial, isFinal, usage) ==
    [kind |-> "chunk",
     model |-> modelId,
     delta |-> IF isInitial
               THEN [role |-> "assistant", hasContent |-> FALSE, content |-> <<>>]
               ELSE IF fragment # <<>>
                    THEN [role |-> None, hasContent |-> TRUE, content |-> fragment]
                    ELSE [role |-> None, hasContent |-> FALSE, content |-> <<>>],
     finish_reason |-> IF isFinal THEN "stop" ELSE None,
     usage |-> IF isFinal /\ usage.present
               THEN [present |-> TRUE,
                     prompt_tokens |-> usage.prompt_tokens,
                     completion_tokens |-> usage.completion_tokens,
                     total_tokens |-> usage.prompt_tokens + usage.completion_tokens]
               ELSE NoUsage]

\* A completion whose total is the completion count alone.
createChatCompletionResponseNoPrompt(modelId, responseText, promptTokens, completionTokens) ==
    [kind |-> "chat.completion",
     model |-> modelId,
     content |-> responseText,
     finish_reason |-> "stop",
     usage |-> [present |-> TRUE,
                prompt_tokens |-> promptTokens,
                completion_tokens |-> completionTokens,
                total_tokens |-> completionTokens]]

\* createChatCompletionResponse(modelId, responseText, promptTokens, completionTokens)
createChatCompletionResponse(modelId, responseText, promptTokens, completionTokens) ==
    [kind |-> "chat.completion",
     model |-> modelId,
     content |-> responseText,
     finish_reason |-> "stop",
     usage |-> [present |-> TRUE,
                prompt_tokens |-> promptTokens,
                completion_tokens |-> completionTokens,
                total_tokens |-> promptTokens + completionTokens]]

DoneLine == [kind |-> "[DONE]"]

-----------------------------------------------------------------------------
(* ChatController and StreamHandler: POST /v1/chat/completions *)

TextHi == <<"h", "i">>
MsgUser == [role |-> "user", content |-> TextHi]
MsgSystem == [role |-> "system", content |-> <<"s">>]
MsgNoRole == [role |-> "", content |-> TextHi]
MsgBadRole == [role |-> "tool", content |-> TextHi]
MsgNoContent == [role |-> "user", content |-> <<>>]

\* Values of the body field `messages`; isArray FALSE: not an array.
ChatMessagesChoices ==
    { [isArray |-> FALSE, items |-> <<>>],
      [isArray |-> TRUE, items |-> <<>>],
      [isArray |-> TRUE, items |-> <<MsgUser>>],
      [isArray |-> TRUE, items |-> <<MsgSystem, MsgUser>>],
      [isArray |-> TRUE, items |-> <<MsgUser, MsgBadRole>>],
      [isArray |-> TRUE, items |-> <<MsgNoRole>>],
      [isArray |-> TRUE, items |-> <<MsgNoContent>>] }

ChatModels == {None, "gpt-5-high", " GPT-5-High ", "gpt-5"}

\* ModelManager.createChatMessage: the error it throws, "" when it returns.
createChatMessageError(msg) ==
    IF msg.role = "" THEN "missing or invalid 'role' property"
    ELSE IF msg.content = <<>> THEN "missing or invalid 'content' property"
    ELSE IF msg.role \notin {"user", "system", "assistant"}
         THEN "role must be 'system', 'user', or 'assistant'"
    ELSE ""

\* An empty list of messages is refused like a message without content.
craftedPromptErrorOnEmpty(items) ==
    IF items = <<>>
    THEN [message |-> "missing or invalid 'content' property", index |-> 0]
    ELSE LET Bad(i) == createChatMessageError(items[i]) # ""
         IN IF \E i \in 1..Len(items) : Bad(i)
            THEN LET i == CHOOSE k \in 1..Len(items) : Bad(k) /\ \A j \in 1..(k - 1) : ~Bad(j)
                 IN [message |-> createChatMessageError(items[i]), index |-> i - 1]
            ELSE Err(None)

\* messages.map(createChatMessage): the first error thrown, or None.
craftedPromptError(items) ==
    LET Bad(i) == createChatMessageError(items[i]) # ""
    IN IF \E i \in 1..Len(items) : Bad(i)
       THEN LET i == CHOOSE k \in 1..Len(items) : Bad(k) /\ \A j \in 1..(k - 1) : ~Bad(j)
            IN [message |-> createChatMessageError(items[i]), index |-> i - 1]
       ELSE Err(None)

RECURSIVE promptTokenValue(_)
promptTokenValue(items) ==
    IF items = <<>> THEN 0
    ELSE countTokens(Head(items).content) + promptTokenValue(Tail(items))

\* getActiveModelIdentifier() || model.id
resolvedModelIdOf(last, model) == IF last # NoModel THEN last.id ELSE model.id

responseModelIdOf(requestedModel, resolvedModelId) ==
    IF resolveModelPreset(requestedModel) # NoPreset
    THEN resolveModelPreset(requestedModel).id
    ELSE resolvedModelId

\* ChatController.handleError
chatHandleError(rs, error) == Json(rs, 500, createErrorResponse(error))

Fail(r, rs) ==
    /\ res' = [res EXCEPT ![r] = rs]
    /\ pc' = [pc EXCEPT ![r] = "done"]

\* handleChatCompletion up to `await getModel`.
ChatReceive(r) ==
    /\ pc[r] = "idle"
    /\ started < MaxStarted
    /\ started' = started + 1
    /\ \E messages \in ChatMessagesChoices, stream \in BOOLEAN, model \in ChatModels :
         /\ body' = [body EXCEPT ![r] = [endpoint |-> "chat", messages |-> messages,
                                         stream |-> stream, model |-> model]]
         /\ calls' = [calls EXCEPT ![r] = <<>>]
         /\ IF ~messages.isArray
            THEN /\ Fail(r, chatHandleError(NoRes, Err("Messages must be an array")))
                 /\ UNCHANGED <<gm, ctl>>
            ELSE /\ gm' = [gm EXCEPT ![r] = [NoGm EXCEPT !.preferred = model]]
                 /\ ctl' = [ctl EXCEPT ![r] = [NoCtl EXCEPT !.messages = messages.items,
                                                            !.stream = stream]]
                 /\ res' = [res EXCEPT ![r] = NoRes]
                 /\ pc' = [pc EXCEPT ![r] = "gm_call"]
    /\ UNCHANGED <<lifecycleVars, envVars, cachedModels, lastSelectedModel, faulted, probed>>

ChatModelUnavailable(r) ==
    /\ pc[r] = "gm_fail"
    /\ body[r].endpoint = "chat"
    /\ Fail(r, chatHandleError(res[r], Err("No language models available")))
    /\ UNCHANGED <<lifecycleVars, envVars, resolverVars, calls, started, body, ctl>>

\* After getModel: model ids, createChatMessage for every message, sendRequest.
ChatSend(r) ==
    /\ pc[r] = "gm_ret"
    /\ body[r].endpoint = "chat"
    /\ LET model == gm[r].result
           resolvedModelId == resolvedModelIdOf(lastSelectedModel, model)
           error == craftedPromptError(ctl[r].messages)
       IN IF error.message # None
          THEN /\ Fail(r, chatHandleError(res[r], error))
               /\ UNCHANGED <<ctl, calls>>
          ELSE /\ Log(r, "send")
               /\ \E outcome \in {"response", "nothing", "raise"} :
                    IF outcome = "response"
                    THEN /\ ctl' = [ctl EXCEPT ![r].model = model,
                                     ![r].resolvedModelId = resolvedModelId,
                                     ![r].responseModelId =
                                         responseModelIdOf(body[r].model, resolvedModelId)]
                         /\ pc' = [pc EXCEPT ![r] = "chat_sent"]
                         /\ UNCHANGED res
                    ELSE /\ Fail(r, chatHandleError(res[r],
                                 Err(IF outcome = "nothing"
                                     THEN "No response from language model"
                                     ELSE "upstream error")))
                         /\ UNCHANGED ctl
    /\ UNCHANGED <<lifecycleVars, envVars, resolverVars, started, body>>

\* StreamHandler.initializeStream
chatInitializeStream(rs, modelId) ==
    Write([rs EXCEPT !.sse = TRUE], createStreamChunk(modelId, <<>>, TRUE, FALSE, NoUsage))

\* Prompt token loop, then the start of the stream or of the drain.
ChatCountPrompt(r) ==
    /\ pc[r] = "chat_sent"
    /\ calls' = [calls EXCEPT ![r] =
                    @ \o [i \in 1..Len(ctl[r].messages) |-> "count"]]
    /\ \E raised \in BOOLEAN :
         IF raised /\ ctl[r].messages # <<>>
         THEN /\ Fail(r, chatHandleError(res[r], Err("upstream error")))
              /\ UNCHANGED ctl
         ELSE /\ ctl' = [ctl EXCEPT ![r].promptTokens = promptTokenValue(ctl[r].messages)]
              /\ IF ctl[r].stream
                 THEN /\ res' = [res EXCEPT ![r] =
                                    chatInitializeStream(@, ctl[r].responseModelId)]
                      /\ pc' = [pc EXCEPT ![r] = "chat_stream"]
                 ELSE /\ pc' = [pc EXCEPT ![r] = "chat_drain"]
                      /\ UNCHANGED res
    /\ UNCHANGED <<lifecycleVars, envVars, resolverVars, started, body>>

\* Results of `await iterator.next()` on the upstream text.
NextResults(yielded) ==
    { [done |-> FALSE, raised |-> FALSE, value |-> f] :
          f \in IF Len(yielded) < MaxFrags THEN FragChoices ELSE {} }
    \cup { [done |-> TRUE, raised |-> FALSE, value |-> <<>>],
           [done |-> FALSE, raised |-> TRUE, value |-> <<>>] }

\* The error chunk is followed by `data: [DONE]`.
handleStreamErrorThenDone(rs, error) ==
    End(Write(Write(rs, createErrorResponse(error)), DoneLine))

\* The response is ended before the error chunk is written.
handleStreamErrorAfterEnd(rs, error) == Write(End(rs), createErrorResponse(error))

\* StreamHandler.handleStreamError
handleStreamError(rs, error) == End(Write(rs, createErrorResponse(error)))

\* One turn of the while loop of StreamHandler.handleStream.
ChatStreamNext(r) ==
    /\ pc[r] = "chat_stream"
    /\ \E result \in NextResults(ctl[r].upFrags) :
         IF result.raised
         THEN /\ Fail(r, handleStreamError(res[r], Err("upstream error")))
              /\ UNCHANGED ctl
         ELSE IF result.done
         THEN /\ ctl' = [ctl EXCEPT ![r].text = StringAppend(@, result),
                                    ![r].drained = TRUE]
              /\ pc' = [pc EXCEPT ![r] = "chat_final"]
              /\ UNCHANGED res
         ELSE /\ ctl' = [ctl EXCEPT ![r].text = StringAppend(@, result),
                                    ![r].upFrags = Append(@, result.value)]
              /\ res' = [res EXCEPT ![r] =
                            Write(@, createStreamChunk(ctl[r].responseModelId,
                                                       result.value, FALSE, FALSE, NoUsage))]
              /\ pc' = pc
    /\ UNCHANGED <<lifecycleVars, envVars, resolverVars, calls, started, body>>

\* Final chunks without the empty chunk that precedes the usage chunk.
finalChunksUsageOnly(rs, modelId, promptTokens, completionTokens) ==
    Write(rs, createStreamChunk(modelId, <<>>, FALSE, TRUE,
                                [present |-> TRUE, prompt_tokens |-> promptTokens,
                                 completion_tokens |-> completionTokens, total_tokens |-> 0]))

\* The writes of handleFinalChunks after its token count.
finalChunks(rs, modelId, promptTokens, completionTokens) ==
    Write(Write(rs, createStreamChunk(modelId, <<>>, FALSE, FALSE, NoUsage)),
          createStreamChunk(modelId, <<>>, FALSE, TRUE,
                            [present |-> TRUE, prompt_tokens |-> promptTokens,
                             completion_tokens |-> completionTokens, total_tokens |-> 0]))

\* handleFinalChunks, then `data: [DONE]` and the end of the response.
ChatStreamFinal(r) ==
    /\ pc[r] = "chat_final"
    /\ Log(r, "count")
    /\ \E raised \in BOOLEAN :
         /\ ctl' = [ctl EXCEPT ![r].counted = ~raised]
         /\ IF raised
            THEN Fail(r, handleStreamError(res[r], Err("upstream error")))
            ELSE Fail(r, End(Write(finalChunks(res[r], ctl[r].responseModelId,
                                            ctl[r].promptTokens,
                                            countTokens(ctl[r].text)),
                                DoneLine)))
    /\ UNCHANGED <<lifecycleVars, envVars, resolverVars, started, body>>

\* One turn of the for-await loop of handleNonStreamResponse.
ChatDrainNext(r) ==
    /\ pc[r] = "chat_drain"
    /\ \E result \in NextResults(ctl[r].upFrags) :
         IF result.raised
         THEN /\ Fail(r, chatHandleError(res[r], Err("upstream error")))
              /\ UNCHANGED ctl
         ELSE IF result.done
         THEN /\ pc' = [pc EXCEPT ![r] = "chat_count"]
              /\ ctl' = [ctl EXCEPT ![r].drained = TRUE]
              /\ UNCHANGED res
         ELSE /\ ctl' = [ctl EXCEPT ![r].text = @ \o result.value,
                                    ![r].upFrags = Append(@, result.value)]
              /\ UNCHANGED <<pc, res>>
    /\ UNCHANGED <<lifecycleVars, envVars, resolverVars, calls, started, body>>

\* The completion token count and the JSON body of handleNonStreamResponse.
ChatNonStreamFinish(r) ==
    /\ pc[r] = "chat_count"
    /\ Log(r, "count")
    /\ \E raised \in BOOLEAN :
         /\ ctl' = [ctl EXCEPT ![r].counted = ~raised]
         /\ IF raised
            THEN Fail(r, chatHandleError(res[r], Err("upstream error")))
            ELSE Fail(r, Json(res[r], 200,
                   createChatCompletionResponse(ctl[r].responseModelId, ctl[r].text,
                                                ctl[r].promptTokens,
                                                countTokens(ctl[r].text))))
    /\ UNCHANGED <<lifecycleVars, envVars, resolverVars, started, body>>

\* The task of a served request ends; its slot is free again.
RequestEnd(r) ==
    /\ pc[r] = "done"
    /\ pc' = [pc EXCEPT ![r] = "idle"]
    /\ gm' = [gm EXCEPT ![r] = NoGm]
    /\ calls' = [calls EXCEPT ![r] = <<>>]
    /\ body' = [body EXCEPT ![r] = NoBody]
    /\ ctl' = [ctl EXCEPT ![r] = NoCtl]
    /\ res' = [res EXCEPT ![r] = NoRes]
    /\ UNCHANGED <<lifecycleVars, envVars, cachedModels, lastSelectedModel, started, faulted,
                   probed>>

-----------------------------------------------------------------------------
(* ResponseFormatter: responses envelope *)

NullUsage == [present |-> FALSE, input_tokens |-> 0, output_tokens |-> 0,
              total_tokens |-> 0]

NoOptions == [createdAt |-> "now", outputText |-> <<>>, outputId |-> "msg_generated",
              includeOutput |-> TRUE, hasOutputItems |-> FALSE, outputItems |-> <<>>]

\* A part that loses its text.
outputTextPartWithoutText(text) == [type |-> "output_text", text |-> <<>>]

outputTextPart(text) == [type |-> "output_text", text |-> text]

\* output_text derived from the first item typed "message" of outputItems
outputTextOfItems(outputItems, dflt) ==
    LET IsMessage(item) == item.type = "message"
        messageItem == Find(outputItems, {item \in Range(outputItems) : IsMessage(item)},
                           [type |-> None])
    IN IF messageItem.type = None THEN dflt
       ELSE IF messageItem.content = <<>> THEN <<>>
       ELSE messageItem.content[1].text

\* An envelope that reports usage only when it has output text.
createResponseEnvelopeUsageOfText(responseId, modelId, status, promptTokens, completionTokens, instructions, metadata, options) ==
    LET useItems == options.hasOutputItems /\ options.includeOutput
    IN [kind |-> "response",
        id |-> responseId,
        created_at |-> options.createdAt,
        status |-> status,
        model |-> modelId,
        output |-> IF useItems THEN options.outputItems
                   ELSE IF options.includeOutput
                   THEN << [id |-> options.outputId, type |-> "message",
                            role |-> "assistant",
                            content |-> <<outputTextPart(options.outputText)>>] >>
                   ELSE <<>>,
        output_text |-> IF useItems
                        THEN outputTextOfItems(options.outputItems, options.outputText)
                        ELSE IF options.includeOutput THEN options.outputText ELSE <<>>,
        usage |-> IF options.includeOutput /\ options.outputText # <<>>
                  THEN [present |-> TRUE,
                        input_tokens |-> promptTokens,
                        output_tokens |-> completionTokens,
                        total_tokens |-> promptTokens + completionTokens]
                  ELSE NullUsage,
        metadata |-> metadata,
        instructions |-> instructions]

\* createResponseEnvelope(responseId, modelId, status, promptTokens,
\* completionTokens, instructions, metadata, options)
createResponseEnvelope(responseId, modelId, status, promptTokens, completionTokens, instructions, metadata, options) ==
    LET useItems == options.hasOutputItems /\ options.includeOutput
    IN [kind |-> "response",
        id |-> responseId,
        created_at |-> options.createdAt,
        status |-> status,
        model |-> modelId,
        output |-> IF useItems THEN options.outputItems
                   ELSE IF options.includeOutput
                   THEN << [id |-> options.outputId, type |-> "message",
                            role |-> "assistant",
                            content |-> <<outputTextPart(options.outputText)>>] >>
                   ELSE <<>>,
        output_text |-> IF useItems
                        THEN outputTextOfItems(options.outputItems, options.outputText)
                        ELSE IF options.includeOutput THEN options.outputText ELSE <<>>,
        usage |-> IF options.includeOutput
                  THEN [present |-> TRUE,
                        input_tokens |-> promptTokens,
                        output_tokens |-> completionTokens,
                        total_tokens |-> promptTokens + completionTokens]
                  ELSE NullUsage,
        metadata |-> metadata,
        instructions |-> instructions]

createResponsesResponse(responseId, modelId, responseText, promptTokens, completionTokens, status, instructions, metadata) ==
    createResponseEnvelope(responseId, modelId, status, promptTokens, completionTokens,
                           instructions, metadata,
                           [NoOptions EXCEPT !.outputText = responseText])

-----------------------------------------------------------------------------
(* ResponsesController and ResponsesStreamHandler: POST /v1/responses *)

\* Stands for the fixed built-in instruction text (never empty).
DEFAULT_INSTRUCTIONS == <<"D", "r", "o", "i", "d">>

TextPing == <<"p", "i", "n", "g">>

\* JSON values of a request: undefined, null, strings, booleans, a number
\* (7, with its String() text), arrays and plain objects.
Absent == [type |-> "absent", s |-> <<>>, b |-> FALSE]
Null == [type |-> "null", s |-> <<>>, b |-> FALSE]
Str(text) == [type |-> "string", s |-> text, b |-> FALSE]
Bool(b) == [type |-> "boolean", s |-> <<>>, b |-> b]
Num == [type |-> "number", s |-> <<"7">>, b |-> FALSE]
Arr(items) == [type |-> "array", items |-> items]
Obj(fields) == [type |-> "object", fields |-> fields]

\* record[name] of a plain object, undefined when the key is missing
Field(value, name) ==
    IF value.type = "object" /\ name \in DOMAIN value.fields
    THEN value.fields[name] ELSE Absent

\* String(content) of a number or a boolean
String(content) ==
    IF content.type = "boolean"
    THEN IF content.b THEN <<"t", "r", "u", "e">> ELSE <<"f", "a", "l", "s", "e">>
    ELSE content.s

UpperCase ==
    <<"A", "B", "C", "D", "E", "F", "G", "H", "I", "J", "K", "L", "M",
      "N", "O", "P", "Q", "R", "S", "T", "U", "V", "W", "X", "Y", "Z">>
LowerCase ==
    <<"a", "b", "c", "d", "e", "f", "g", "h", "i", "j", "k", "l", "m",
      "n", "o", "p", "q", "r", "s", "t", "u", "v", "w", "x", "y", "z">>

toLowerCaseChar(c) ==
    IF \E i \in DOMAIN UpperCase : UpperCase[i] = c
    THEN LowerCase[CHOOSE i \in DOMAIN UpperCase : UpperCase[i] = c]
    ELSE c

\* String.prototype.toLowerCase
RECURSIVE toLowerCase(_)
toLowerCase(text) ==
    IF text = <<>> THEN <<>>
    ELSE <<toLowerCaseChar(Head(text))>> \o toLowerCase(Tail(text))

\* String.prototype.trim
RECURSIVE trim(_)
trim(text) ==
    IF text = <<>> THEN <<>>
    ELSE IF Head(text) = " " THEN trim(Tail(text))
    ELSE IF text[Len(text)] = " " THEN trim(SubSeq(text, 1, Len(text) - 1))
    ELSE text

\* String.prototype.split with a one-character separator
RECURSIVE split(_, _)
split(text, separator) ==
    IF \A i \in DOMAIN text : text[i] # separator THEN <<text>>
    ELSE LET i == CHOOSE k \in DOMAIN text :
                     text[k] = separator /\ \A j \in 1..(k - 1) : text[j] # separator
         IN <<SubSeq(text, 1, i - 1)>> \o split(SubSeq(text, i + 1, Len(text)), separator)

\* Array.prototype.join
RECURSIVE join(_, _)
join(parts, separator) ==
    IF parts = <<>> THEN <<>>
    ELSE IF Len(parts) = 1 THEN parts[1]
    ELSE parts[1] \o separator \o join(Tail(parts), separator)

\* Values of the body field previous_response_id.
PreviousResponseIdChoices == {Absent, Str(<<"a", "b", "c">>), Str(<<>>), Num}

InputChoices == {Absent, Str(TextPing)}

\* The body field `messages` of a Responses request: an empty array.
MessagesChoices == {Arr(<<>>)}

StreamFieldChoices == {Bool(TRUE), Bool(FALSE)}

ResponsesModels == {None, "gpt-5-high"}

\* The three request headers the stream decision reads; Absent when not sent.
NoHeaders == [helperMethod |-> Absent, openAiStream |-> Absent, accept |-> Absent]

TruthyWords == { <<"t", "r", "u", "e">>, <<"1">>, <<"y", "e", "s">>, <<"o", "n">> }
FalsyWords == { <<"f", "a", "l", "s", "e">>, <<"0">>, <<"n", "o">>, <<"o", "f", "f">> }
TextStream == <<"s", "t", "r", "e", "a", "m">>
TextEventStream ==
    <<"t", "e", "x", "t", "/", "e", "v", "e", "n", "t", "-", "s", "t", "r", "e", "a", "m">>

\* acceptHeader.split(',').map(value => value.trim().toLowerCase())
acceptEntries(acceptHeader) ==
    LET parts == split(acceptHeader, ",")
    IN { toLowerCase(trim(parts[i])) : i \in DOMAIN parts }

\* a header that was sent with a non-empty value
headerGiven(header) == header.type = "string" /\ header.s # <<>>

\* The headers decide although the body says stream: false.
shouldStreamHeadersFirst(streamField, headers) ==
    \/ headerGiven(headers.helperMethod) /\ toLowerCase(headers.helperMethod.s) = TextStream
    \/ headerGiven(headers.openAiStream)
          /\ toLowerCase(headers.openAiStream.s) = <<"t", "r", "u", "e">>
    \/ headerGiven(headers.accept) /\ TextEventStream \in acceptEntries(headers.accept.s)
    \/ streamField.type = "boolean" /\ streamField.b
    \/ streamField.type = "string" /\ toLowerCase(streamField.s) \in TruthyWords

shouldStream(streamField, headers) ==
    IF streamField.type = "boolean" THEN streamField.b
    ELSE IF streamField.type = "string" /\ toLowerCase(streamField.s) \in TruthyWords
    THEN TRUE
    ELSE IF streamField.type = "string" /\ toLowerCase(streamField.s) \in FalsyWords
    THEN FALSE
    ELSE IF headerGiven(headers.helperMethod)
            /\ toLowerCase(headers.helperMethod.s) = TextStream
    THEN TRUE
    ELSE IF headerGiven(headers.openAiStream)
            /\ toLowerCase(headers.openAiStream.s) = <<"t", "r", "u", "e">>
    THEN TRUE
    ELSE headerGiven(headers.accept) /\ TextEventStream \in acceptEntries(headers.accept.s)

\* A check that takes only a string of more than three characters as given.
previousResponseIdGivenLong(raw) == raw.type = "string" /\ Len(raw.s) > 3

\* typeof raw === 'string' ? raw : undefined, then the truthiness test
previousResponseIdGiven(raw) == raw.type = "string" /\ raw.s # <<>>

RECURSIVE extractText(_)
RECURSIVE extractTextFromContentObject(_)

\* The texts of all the parts, the empty ones too.
RECURSIVE extractPartsWithEmpty(_)
extractPartsWithEmpty(items) ==
    IF items = <<>> THEN <<>>
    ELSE <<extractText(Head(items))>> \o extractPartsWithEmpty(Tail(items))

\* the texts of the parts of an array that are not empty, in order
RECURSIVE extractParts(_)
extractParts(items) ==
    IF items = <<>> THEN <<>>
    ELSE (IF extractText(Head(items)) # <<>> THEN <<extractText(Head(items))>> ELSE <<>>)
         \o extractParts(Tail(items))

\* The text of a content object, Absent (undefined) when it has none.
extractTextFromContentObject(content) ==
    LET type == IF Field(content, "type").type = "string"
                THEN Field(content, "type").s ELSE <<>>
    IN IF Field(content, "text").type = "string" THEN Field(content, "text")
       ELSE IF type = <<"t", "e", "x", "t">> /\ Field(content, "value").type = "string"
       THEN Field(content, "value")
       ELSE IF type = <<"i", "n", "p", "u", "t", "_", "t", "e", "x", "t">>
               /\ Field(content, "input_text").type = "string"
       THEN Field(content, "input_text")
       ELSE IF type = <<"i", "n", "p", "u", "t", "_", "t", "e", "x", "t">>
               /\ Field(content, "content").type = "string"
       THEN Field(content, "content")
       ELSE IF type = <<"o", "u", "t", "p", "u", "t", "_", "t", "e", "x", "t">>
               /\ Field(content, "output_text").type = "string"
       THEN Field(content, "output_text")
       ELSE IF Field(content, "content").type = "array"
               /\ extractText(Field(content, "content")) # <<>>
       THEN Str(extractText(Field(content, "content")))
       ELSE Absent

extractText(content) ==
    IF content.type = "string" THEN content.s
    ELSE IF content.type \in {"number", "boolean"} THEN String(content)
    ELSE IF content.type = "array" THEN join(extractParts(content.items), <<"\n">>)
    ELSE IF content.type = "object"
    THEN LET directText == extractTextFromContentObject(content)
         IN IF directText.type = "string" THEN directText.s ELSE <<>>
    ELSE <<>>

effectiveInstructionsOf(instructions) ==
    IF trim(extractText(instructions)) # <<>> THEN extractText(instructions)
    ELSE DEFAULT_INSTRUCTIONS

normalizeRole(role) ==
    IF role.type # "string" THEN "user"
    ELSE LET normalized == toLowerCase(role.s)
         IN IF normalized = <<"s", "y", "s", "t", "e", "m">> THEN "system"
            ELSE IF normalized = <<"a", "s", "s", "i", "s", "t", "a", "n", "t">>
            THEN "assistant"
            ELSE IF normalized = <<"u", "s", "e", "r">> THEN "user"
            ELSE IF normalized \in { <<"d", "e", "v", "e", "l", "o", "p", "e", "r">>,
                                     <<"t", "o", "o", "l">> }
            THEN "system"
            ELSE "user"

\* for (const message of messages): skip non-objects and empty contents
RECURSIVE parseMessagesArray(_)
parseMessagesArray(messages) ==
    IF messages = <<>> THEN <<>>
    ELSE LET message == Head(messages)
         IN (IF message.type \notin {"object", "array"}
                \/ extractText(Field(message, "content")) = <<>>
             THEN <<>>
             ELSE << [role |-> normalizeRole(Field(message, "role")),
                      content |-> extractText(Field(message, "content"))] >>)
            \o parseMessagesArray(Tail(messages))

parseInput(input) ==
    IF input.type = "string" THEN << [role |-> "user", content |-> input.s] >>
    ELSE IF input.type = "array" THEN parseMessagesArray(input.items)
    ELSE IF input.type = "object" THEN parseMessagesArray(<<input>>)
    ELSE <<>>

\* The fallback messages are put before the messages of `input`.
buildMessagesFallbackFirst(input, instructionText, fallbackMessages) ==
    (IF instructionText # <<>>
     THEN << [role |-> "system", content |-> instructionText] >> ELSE <<>>)
    \o (IF fallbackMessages.type = "array"
        THEN parseMessagesArray(fallbackMessages.items) ELSE <<>>)
    \o (IF input.type \notin {"absent", "null"} THEN parseInput(input) ELSE <<>>)

buildMessages(input, instructionText, fallbackMessages) ==
    (IF instructionText # <<>>
     THEN << [role |-> "system", content |-> instructionText] >> ELSE <<>>)
    \o (IF input.type \notin {"absent", "null"} THEN parseInput(input) ELSE <<>>)
    \o (IF fallbackMessages.type = "array"
        THEN parseMessagesArray(fallbackMessages.items) ELSE <<>>)

buildResponseMetadata(requestedModel, resolvedModelId) ==
    [resolved_model_id |-> resolvedModelId,
     requested_model_id |-> IF requestedModel # None /\ requestedModel # resolvedModelId
                            THEN requestedModel ELSE None,
     preset_model_id |-> resolveModelPreset(requestedModel).id]

\* ResponsesController.handleError
responsesHandleError(rs, error) ==
    Json(rs, IF error.message = "No input provided" THEN 400 ELSE 500,
         createErrorResponse(error))

\* handleResponse up to `await getModel`.
ResponsesReceive(r) ==
    /\ pc[r] = "idle"
    /\ started < MaxStarted
    /\ started' = started + 1
    /\ \E input \in InputChoices, messagesField \in MessagesChoices,
          prev \in PreviousResponseIdChoices,
          streamField \in StreamFieldChoices, model \in ResponsesModels :
         /\ body' = [body EXCEPT ![r] =
                        [endpoint |-> "responses", input |-> input,
                         messages |-> messagesField,
                         previous_response_id |-> prev, stream |-> streamField,
                         model |-> model, instructions |-> Absent]]
         /\ calls' = [calls EXCEPT ![r] = <<>>]
         /\ LET messages == buildMessages(input, effectiveInstructionsOf(Absent),
                                          messagesField)
            IN IF previousResponseIdGiven(prev)
               THEN /\ Fail(r, Json(NoRes, 400, createErrorResponse(
                                  Err("previous_response_id is not supported yet."))))
                    /\ UNCHANGED <<gm, ctl>>
               ELSE IF messages = <<>>
               THEN /\ Fail(r, responsesHandleError(NoRes, Err("No input provided")))
                    /\ UNCHANGED <<gm, ctl>>
               ELSE /\ gm' = [gm EXCEPT ![r] = [NoGm EXCEPT !.preferred = model]]
                    /\ ctl' = [ctl EXCEPT ![r] =
                                  [NoCtl EXCEPT !.messages = messages,
                                                !.stream = shouldStream(streamField, NoHeaders)]]
                    /\ res' = [res EXCEPT ![r] = NoRes]
                    /\ pc' = [pc EXCEPT ![r] = "gm_call"]
    /\ UNCHANGED <<lifecycleVars, envVars, cachedModels, lastSelectedModel, faulted, probed>>

ResponsesModelUnavailable(r) ==
    /\ pc[r] = "gm_fail"
    /\ body[r].endpoint = "responses"
    /\ Fail(r, responsesHandleError(res[r], Err("No language models available")))
    /\ UNCHANGED <<lifecycleVars, envVars, resolverVars, calls, started, body, ctl>>

\* After getModel: model ids, createChatMessage for every message, sendRequest.
ResponsesSend(r) ==
    /\ pc[r] = "gm_ret"
    /\ body[r].endpoint = "responses"
    /\ LET model == gm[r].result
           resolvedModelId == resolvedModelIdOf(lastSelectedModel, model)
           error == craftedPromptError(ctl[r].messages)
       IN IF error.message # None
          THEN /\ Fail(r, responsesHandleError(res[r], error))
               /\ UNCHANGED <<ctl, calls>>
          ELSE /\ Log(r, "send")
               /\ \E outcome \in {"response", "nothing", "raise"} :
                    IF outcome = "response"
                    THEN /\ ctl' = [ctl EXCEPT ![r].model = model,
                                     ![r].resolvedModelId = resolvedModelId,
                                     ![r].responseModelId =
                                         responseModelIdOf(body[r].model, resolvedModelId)]
                         /\ pc' = [pc EXCEPT ![r] = "resp_sent"]
                         /\ UNCHANGED res
                    ELSE /\ Fail(r, responsesHandleError(res[r],
                                 Err(IF outcome = "nothing"
                                     THEN "No response from language model"
                                     ELSE "upstream error")))
                         /\ UNCHANGED ctl
    /\ UNCHANGED <<lifecycleVars, envVars, resolverVars, started, body>>

ResponseId == "resp_1"        \* generateResponseId()
MessageItemId == "msg_1"      \* generateMessageId() in initializeStream
ReasoningItemId == "rs_1"     \* reasoningItemId in initializeStream

\* An SSE event as written by writeEvent; sequence_number -1: the payload has none.
Event(name, sequence, data) ==
    [kind |-> "event", name |-> name, sequence_number |-> sequence, data |-> data]

\* A counter that increments before it is read.
nextSequencePreIncrement(n) == [value |-> n + 1, sequenceNumber |-> n + 1]

\* nextSequence: `return this.sequenceNumber++` on the counter value n.
nextSequence(n) == [value |-> n, sequenceNumber |-> n + 1]

\* The stream handler state: the response and the sequenceNumber field.
Handler(rs, n) == [res |-> rs, sequenceNumber |-> n]

\* writeEvent(name, {sequence_number: this.nextSequence(), ...data})
WriteEvent(sh, name, data) ==
    LET next == nextSequence(sh.sequenceNumber)
    IN Handler(Write(sh.res, Event(name, next.value, data)), next.sequenceNumber)

reasoningItem(instructions, status) ==
    [id |-> ReasoningItemId, type |-> "reasoning", status |-> status,
     encrypted_content |-> [base64 |-> <<instructions, ResponseId>>]]

messageItem(status, content) ==
    [id |-> MessageItemId, type |-> "message", status |-> status,
     role |-> "assistant", content |-> content]

streamOptions == [NoOptions EXCEPT !.createdAt = "createdAt", !.outputId = MessageItemId]

\* A prefix whose response.in_progress envelope is built anew, with output.
streamPrefixSecondEnvelope(rs, modelId, promptTokens, instructions, metadata) ==
    LET createdEnvelope ==
            createResponseEnvelope(ResponseId, modelId, "in_progress", promptTokens, 0,
                                   instructions, metadata,
                                   [streamOptions EXCEPT !.includeOutput = FALSE])
        progressEnvelope ==
            createResponseEnvelope(ResponseId, modelId, "in_progress", promptTokens, 0,
                                   instructions, metadata, streamOptions)
        w1 == WriteEvent(Handler([rs EXCEPT !.sse = TRUE], 0), "response.created",
                         [response |-> createdEnvelope])
        w2 == WriteEvent(w1, "response.in_progress", [response |-> progressEnvelope])
        w3 == WriteEvent(w2, "response.output_item.added",
                         [output_index |-> 0,
                          item |-> reasoningItem(instructions, "in_progress")])
        w4 == WriteEvent(w3, "response.output_item.done",
                         [output_index |-> 0,
                          item |-> reasoningItem(instructions, "completed")])
        w5 == WriteEvent(w4, "response.output_item.added",
                         [output_index |-> 1, item |-> messageItem("in_progress", <<>>)])
    IN WriteEvent(w5, "response.content_part.added",
                  [item_id |-> MessageItemId, output_index |-> 1, content_index |-> 0,
                   part |-> outputTextPart(<<>>)])

\* initializeStream and handleStream up to the first `await` on the fragments.
streamPrefix(rs, modelId, promptTokens, instructions, metadata) ==
    LET createdEnvelope ==
            createResponseEnvelope(ResponseId, modelId, "in_progress", promptTokens, 0,
                                   instructions, metadata,
                                   [streamOptions EXCEPT !.includeOutput = FALSE])
        w1 == WriteEvent(Handler([rs EXCEPT !.sse = TRUE], 0), "response.created",
                         [response |-> createdEnvelope])
        w2 == WriteEvent(w1, "response.in_progress", [response |-> createdEnvelope])
        w3 == WriteEvent(w2, "response.output_item.added",
                         [output_index |-> 0,
                          item |-> reasoningItem(instructions, "in_progress")])
        w4 == WriteEvent(w3, "response.output_item.done",
                         [output_index |-> 0,
                          item |-> reasoningItem(instructions, "completed")])
        w5 == WriteEvent(w4, "response.output_item.added",
                         [output_index |-> 1, item |-> messageItem("in_progress", <<>>)])
    IN WriteEvent(w5, "response.content_part.added",
                  [item_id |-> MessageItemId, output_index |-> 1, content_index |-> 0,
                   part |-> outputTextPart(<<>>)])

\* Prompt token loop, then the start of the stream or of the drain.
ResponsesCountPrompt(r) ==
    /\ pc[r] = "resp_sent"
    /\ calls' = [calls EXCEPT ![r] =
                    @ \o [i \in 1..Len(ctl[r].messages) |-> "count"]]
    /\ \E raised \in BOOLEAN :
         IF raised
         THEN /\ Fail(r, responsesHandleError(res[r], Err("upstream error")))
              /\ UNCHANGED ctl
         ELSE /\ ctl' = [ctl EXCEPT
                    ![r].promptTokens = promptTokenValue(ctl[r].messages),
                    ![r].sequenceNumber =
                        IF ctl[r].stream
                        THEN streamPrefix(res[r], ctl[r].responseModelId,
                                 promptTokenValue(ctl[r].messages),
                                 effectiveInstructionsOf(body[r].instructions),
                                 buildResponseMetadata(body[r].model,
                                     ctl[r].resolvedModelId)).sequenceNumber
                        ELSE @]
              /\ IF ctl[r].stream
                 THEN /\ res' = [res EXCEPT ![r] =
                            streamPrefix(@, ctl[r].responseModelId,
                                         promptTokenValue(ctl[r].messages),
                                         effectiveInstructionsOf(body[r].instructions),
                                         buildResponseMetadata(body[r].model,
                                                               ctl[r].resolvedModelId)).res]
                      /\ pc' = [pc EXCEPT ![r] = "resp_stream"]
                 ELSE /\ pc' = [pc EXCEPT ![r] = "resp_drain"]
                      /\ UNCHANGED res
    /\ UNCHANGED <<lifecycleVars, envVars, resolverVars, started, body>>

\* The error event is written and the connection is left open.
responsesStreamErrorLeftOpen(rs, error) ==
    Write(rs, Event("error", -1, createErrorResponse(error)))

\* The catch block of ResponsesStreamHandler.handleStream.
responsesStreamError(rs, error) ==
    End(Write(rs, Event("error", -1, createErrorResponse(error))))

\* The closing events with the content part closed before its text.
textDoneEventsPartFirst(sh, responseText) ==
    LET w1 == WriteEvent(sh, "response.content_part.done",
                         [item_id |-> MessageItemId, output_index |-> 1,
                          content_index |-> 0, part |-> outputTextPart(responseText)])
        w2 == WriteEvent(w1, "response.output_text.done",
                         [item_id |-> MessageItemId, output_index |-> 1,
                          content_index |-> 0, text |-> responseText])
    IN WriteEvent(w2, "response.output_item.done",
                  [output_index |-> 1,
                   item |-> messageItem("completed", <<outputTextPart(responseText)>>)])

\* The three events written when the fragments are exhausted.
textDoneEvents(sh, responseText) ==
    LET w1 == WriteEvent(sh, "response.output_text.done",
                         [item_id |-> MessageItemId, output_index |-> 1,
                          content_index |-> 0, text |-> responseText])
        w2 == WriteEvent(w1, "response.content_part.done",
                         [item_id |-> MessageItemId, output_index |-> 1,
                          content_index |-> 0, part |-> outputTextPart(responseText)])
    IN WriteEvent(w2, "response.output_item.done",
                  [output_index |-> 1,
                   item |-> messageItem("completed", <<outputTextPart(responseText)>>)])

\* generateObfuscation: base64 of `${fragment}:${sequence}`
generateObfuscation(fragment, sequence) == [base64 |-> <<fragment, ":", sequence>>]

\* The delta event obfuscated with the sequence number after its own.
deltaEventObfuscatedAhead(sh, fragment) ==
    LET next == nextSequence(sh.sequenceNumber)
        sequence == next.value
    IN Handler(Write(sh.res,
                     Event("response.output_text.delta", sequence,
                           [item_id |-> MessageItemId, output_index |-> 1,
                            content_index |-> 0, delta |-> fragment,
                            obfuscation |->
                                generateObfuscation(fragment, next.sequenceNumber)])),
               next.sequenceNumber)

\* The delta event of one fragment, with its own sequence number.
deltaEvent(sh, fragment) ==
    LET next == nextSequence(sh.sequenceNumber)
        sequence == next.value
    IN Handler(Write(sh.res,
                     Event("response.output_text.delta", sequence,
                           [item_id |-> MessageItemId, output_index |-> 1,
                            content_index |-> 0, delta |-> fragment,
                            obfuscation |-> generateObfuscation(fragment, sequence)])),
               next.sequenceNumber)

\* One turn of the for-await loop of ResponsesStreamHandler.handleStream.
ResponsesStreamNext(r) ==
    /\ pc[r] = "resp_stream"
    /\ \E result \in NextResults(ctl[r].upFrags) :
         IF result.raised
         THEN /\ Fail(r, responsesStreamError(res[r], Err("upstream error")))
              /\ UNCHANGED ctl
         ELSE IF result.done
         THEN LET sh == textDoneEvents(Handler(res[r], ctl[r].sequenceNumber),
                                       ctl[r].text)
              IN /\ res' = [res EXCEPT ![r] = sh.res]
                 /\ ctl' = [ctl EXCEPT ![r].sequenceNumber = sh.sequenceNumber,
                                       ![r].drained = TRUE]
                 /\ pc' = [pc EXCEPT ![r] = "resp_final"]
         ELSE LET sh == IF result.value = <<>>
                        THEN Handler(res[r], ctl[r].sequenceNumber)
                        ELSE deltaEvent(Handler(res[r], ctl[r].sequenceNumber),
                                        result.value)
              IN /\ ctl' = [ctl EXCEPT
                       ![r].text = IF result.value = <<>> THEN @ ELSE @ \o result.value,
                       ![r].upFrags = Append(@, result.value),
                       ![r].sequenceNumber = sh.sequenceNumber]
                 /\ res' = [res EXCEPT ![r] = sh.res]
                 /\ pc' = pc
    /\ UNCHANGED <<lifecycleVars, envVars, resolverVars, calls, started, body>>

\* response.completed whose envelope lists the message item alone.
completedEventMessageOnly(sh, modelId, promptTokens, completionTokens, instructions, metadata, responseText) ==
    WriteEvent(sh, "response.completed",
        [response |->
            createResponseEnvelope(ResponseId, modelId, "completed", promptTokens,
                completionTokens, instructions, metadata,
                [streamOptions EXCEPT
                    !.outputText = responseText,
                    !.hasOutputItems = TRUE,
                    !.outputItems =
                        << messageItem("completed", <<outputTextPart(responseText)>>) >>])])

\* response.completed with the envelope of the finished response.
completedEvent(sh, modelId, promptTokens, completionTokens, instructions, metadata, responseText) ==
    WriteEvent(sh, "response.completed",
        [response |->
            createResponseEnvelope(ResponseId, modelId, "completed", promptTokens,
                completionTokens, instructions, metadata,
                [streamOptions EXCEPT
                    !.outputText = responseText,
                    !.hasOutputItems = TRUE,
                    !.outputItems =
                        << reasoningItem(instructions, "completed"),
                           messageItem("completed", <<outputTextPart(responseText)>>) >>])])

\* The completion token count, response.completed and the end of the response.
ResponsesStreamFinal(r) ==
    /\ pc[r] = "resp_final"
    /\ Log(r, "count")
    /\ \E raised \in BOOLEAN :
         /\ ctl' = [ctl EXCEPT ![r].counted = ~raised]
         /\ IF raised
            THEN Fail(r, responsesStreamError(res[r], Err("upstream error")))
            ELSE Fail(r, End(completedEvent(Handler(res[r], ctl[r].sequenceNumber),
                              ctl[r].responseModelId,
                              ctl[r].promptTokens, countTokens(ctl[r].text),
                              effectiveInstructionsOf(body[r].instructions),
                              buildResponseMetadata(body[r].model, ctl[r].resolvedModelId),
                              ctl[r].text).res))
    /\ UNCHANGED <<lifecycleVars, envVars, resolverVars, started, body>>

\* One turn of the for-await loop of the non-streaming path of handleResponse.
ResponsesDrainNext(r) ==
    /\ pc[r] = "resp_drain"
    /\ \E result \in NextResults(ctl[r].upFrags) :
         IF result.raised
         THEN /\ Fail(r, responsesHandleError(res[r], Err("upstream error")))
              /\ UNCHANGED ctl
         ELSE IF result.done
         THEN /\ pc' = [pc EXCEPT ![r] = "resp_count"]
              /\ ctl' = [ctl EXCEPT ![r].drained = TRUE]
              /\ UNCHANGED res
         ELSE /\ ctl' = [ctl EXCEPT ![r].text = @ \o result.value,
                                    ![r].upFrags = Append(@, result.value)]
              /\ UNCHANGED <<pc, res>>
    /\ UNCHANGED <<lifecycleVars, envVars, resolverVars, calls, started, body>>

\* The completion token count and the JSON body of the non-streaming path.
ResponsesNonStreamFinish(r) ==
    /\ pc[r] = "resp_count"
    /\ Log(r, "count")
    /\ \E raised \in BOOLEAN :
         /\ ctl' = [ctl EXCEPT ![r].counted = ~raised]
         /\ IF raised
            THEN Fail(r, responsesHandleError(res[r], Err("upstream error")))
            ELSE Fail(r, Json(res[r], 200,
                   createResponsesResponse(ResponseId, ctl[r].responseModelId,
                       ctl[r].text, ctl[r].promptTokens, countTokens(ctl[r].text),
                       "completed", effectiveInstructionsOf(body[r].instructions),
                       buildResponseMetadata(body[r].model, ctl[r].resolvedModelId))))
    /\ UNCHANGED <<lifecycleVars, envVars, resolverVars, started, body>>

-----------------------------------------------------------------------------
(* ServerManager: start() / stop() of the HTTP listener *)
\* The tasks that call start() or stop(): commands, auto start, deactivate.
Caller == {1, 2}

\* this.server === undefined
NoServer == 0

\* locals of one start() / stop() call
NoLctl == [op |-> "", mine |-> NoServer, code |-> "", waitL |-> NoServer,
           binds |-> 0, ret |-> "none"]

\* the locals of a call that returned: its kind and its result
returned(locals, ret) ==
    [NoLctl EXCEPT !.op = locals.op, !.ret = ret]

\* the port can be bound: no other process and no listener of the manager has it
PortFree == ~portTaken /\ \A i \in 1..Len(listeners) : listeners[i].state # "bound"

\* server.close(cb): the listening socket is released at once, the callback
\* runs when the close has completed
close(ls, l) ==
    [ls EXCEPT ![l].state = IF @ \in {"bound", "failed"} THEN "closing" ELSE @]

\* the callback of server.close has run: the await of ensureServerStopped returns
closeCompleted(l) == listeners[l].state = "closed"

\* isRunning()
isRunning == server # NoServer

\* app.listen(port): the bind is attempted at the call, its outcome is reported
\* to the caller by the `listening` or the `error` event
appListen(code) ==
    [state |-> IF code = "" THEN "bound" ELSE "failed"]

\* the error codes app.listen can report for the state of the port
ListenCodes == IF PortFree THEN {"", "EACCES"} ELSE {"EADDRINUSE", "EACCES"}

\* cleanupServerOnFailure: `void this.ensureServerStopped(false)`, detached
cleanupServerOnFailure ==
    IF server = NoServer
      THEN UNCHANGED <<listeners, cleanup>>
      ELSE /\ listeners' = close(listeners, server)
           /\ cleanup' = cleanup \cup {server}

\* start() up to its first await: ensureServerStopped(false) closes the
\* listener the manager holds, if any
startEnter(c, locals) ==
    IF server = NoServer
      THEN /\ lpc' = [lpc EXCEPT ![c] = "start_listen"]
           /\ lctl' = [locals EXCEPT ![c].waitL = NoServer]
           /\ UNCHANGED listeners
      ELSE /\ lpc' = [lpc EXCEPT ![c] = "start_stopping"]
           /\ lctl' = [locals EXCEPT ![c].waitL = server]
           /\ listeners' = close(listeners, server)

\* start() is called
StartCall(c) ==
    /\ lpc[c] = "idle"
    /\ lstarted < MaxCalls
    /\ lstarted' = lstarted + 1
    /\ startEnter(c, [lctl EXCEPT ![c] = [NoLctl EXCEPT !.op = "start"]])
    /\ UNCHANGED <<server, portTaken, statusBar, cleanup>>

\* ensureServerStopped(false) of start(): the close completed, the handle is dropped
StartStopped(c) ==
    /\ lpc[c] = "start_stopping"
    /\ closeCompleted(lctl[c].waitL)
    /\ server' = NoServer
    /\ lpc' = [lpc EXCEPT ![c] = "start_listen"]
    /\ lctl' = [lctl EXCEPT ![c].waitL = NoServer]
    /\ UNCHANGED <<listeners, portTaken, statusBar, cleanup, lstarted>>

\* listen(port): app.listen is called and the handle is stored at once
StartListen(c) ==
    /\ lpc[c] = "start_listen"
    /\ Len(listeners) < MaxBinds
    /\ \E code \in ListenCodes :
         /\ listeners' = Append(listeners, appListen(code))
         /\ lctl' = [lctl EXCEPT ![c].mine = Len(listeners) + 1, ![c].code = code,
                                 ![c].binds = @ + 1]
    /\ server' = Len(listeners) + 1
    /\ lpc' = [lpc EXCEPT ![c] = "start_wait"]
    /\ UNCHANGED <<portTaken, statusBar, cleanup, lstarted>>

\* the `listening` callback: start() returns true
StartListening(c) ==
    /\ lpc[c] = "start_wait"
    /\ listeners[lctl[c].mine].state = "bound"
    /\ statusBar' = "running"
    /\ lctl' = [lctl EXCEPT ![c] = returned(@, "true")]
    /\ lpc' = [lpc EXCEPT ![c] = "idle"]
    /\ UNCHANGED <<server, listeners, portTaken, cleanup, lstarted>>

\* the `error` event with EADDRINUSE: recoverPortConflict, forceStopExistingServer
\* up to its first await
StartConflict(c) ==
    /\ lpc[c] = "start_wait"
    /\ lctl[c].code = "EADDRINUSE"
    /\ IF server = NoServer
         THEN /\ lpc' = [lpc EXCEPT ![c] = "recover_probe"]
              /\ lctl' = [lctl EXCEPT ![c].mine = NoServer, ![c].code = ""]
              /\ UNCHANGED listeners
         ELSE /\ lpc' = [lpc EXCEPT ![c] = "recover_stopping"]
              /\ lctl' = [lctl EXCEPT ![c].mine = NoServer, ![c].code = "",
                                      ![c].waitL = server]
              /\ listeners' = close(listeners, server)
    /\ UNCHANGED <<server, portTaken, statusBar, cleanup, lstarted>>

\* the `error` event with another code: the handler of listen and the catch of
\* start() both call cleanupServerOnFailure; start() returns false
StartError(c) ==
    /\ lpc[c] = "start_wait"
    /\ lctl[c].code \notin {"", "EADDRINUSE"}
    /\ cleanupServerOnFailure
    /\ lctl' = [lctl EXCEPT ![c] = returned(@, "false")]
    /\ lpc' = [lpc EXCEPT ![c] = "idle"]
    /\ UNCHANGED <<server, portTaken, statusBar, lstarted>>

\* ensureServerStopped(false) of forceStopExistingServer: the close completed
RecoverStopped(c) ==
    /\ lpc[c] = "recover_stopping"
    /\ closeCompleted(lctl[c].waitL)
    /\ server' = NoServer
    /\ lpc' = [lpc EXCEPT ![c] = "recover_probe"]
    /\ lctl' = [lctl EXCEPT ![c].waitL = NoServer]
    /\ UNCHANGED <<listeners, portTaken, statusBar, cleanup, lstarted>>

\* forceStopExistingServer after the stop command and the 200 ms sleep: the
\* throwaway listener binds, is closed, and start() is called again
RecoverRetry(c) ==
    /\ lpc[c] = "recover_probe"
    /\ PortFree
    /\ startEnter(c, lctl)
    /\ UNCHANGED <<server, portTaken, statusBar, cleanup, lstarted>>

\* the throwaway listener cannot bind: recoverPortConflict returns false, the
\* catch of start() calls cleanupServerOnFailure and returns false
RecoverFailed(c) ==
    /\ lpc[c] = "recover_probe"
    /\ ~PortFree
    /\ cleanupServerOnFailure
    /\ lctl' = [lctl EXCEPT ![c] = returned(@, "false")]
    /\ lpc' = [lpc EXCEPT ![c] = "idle"]
    /\ UNCHANGED <<server, portTaken, statusBar, lstarted>>

\* stop() is called: without a server its result is false and nothing is
\* closed, else ensureServerStopped(true) closes the listener and awaits
StopCall(c) ==
    /\ lpc[c] = "idle"
    /\ lstarted < MaxCalls
    /\ lstarted' = lstarted + 1
    /\ IF server = NoServer
         THEN /\ lctl' = [lctl EXCEPT ![c] = [NoLctl EXCEPT !.op = "stop", !.ret = "false"]]
              /\ lpc' = [lpc EXCEPT ![c] = "stop_return"]
              /\ UNCHANGED listeners
         ELSE /\ lctl' = [lctl EXCEPT ![c] = [NoLctl EXCEPT !.op = "stop", !.waitL = server]]
              /\ lpc' = [lpc EXCEPT ![c] = "stop_stopping"]
              /\ listeners' = close(listeners, server)
    /\ UNCHANGED <<server, portTaken, statusBar, cleanup>>

\* ensureServerStopped(true) of stop(): the close completed, the handle is
\* dropped and the status bar is updated
StopStopped(c) ==
    /\ lpc[c] = "stop_stopping"
    /\ closeCompleted(lctl[c].waitL)
    /\ server' = NoServer
    /\ statusBar' = "stopped"
    /\ lpc' = [lpc EXCEPT ![c] = "stop_return"]
    /\ UNCHANGED <<listeners, portTaken, lctl, cleanup, lstarted>>

\* the promise of stop() settles: true after ensureServerStopped, false when
\* there was no server
StopReturn(c) ==
    /\ lpc[c] = "stop_return"
    /\ lctl' = [lctl EXCEPT ![c] = returned(@, IF @.ret = "false" THEN "false" ELSE "true")]
    /\ lpc' = [lpc EXCEPT ![c] = "idle"]
    /\ UNCHANGED <<server, listeners, portTaken, statusBar, cleanup, lstarted>>

\* the detached ensureServerStopped(false) of cleanupServerOnFailure resumes
CleanupDone(l) ==
    /\ l \in cleanup
    /\ closeCompleted(l)
    /\ server' = NoServer
    /\ cleanup' = cleanup \ {l}
    /\ UNCHANGED <<listeners, portTaken, statusBar, lpc, lctl, lstarted>>

\* a close that was requested completes
CloseDone(l) ==
    /\ listeners[l].state = "closing"
    /\ listeners' = [listeners EXCEPT ![l].state = "closed"]
    /\ UNCHANGED <<server, portTaken, statusBar, lpc, lctl, cleanup, lstarted>>

\* another process binds the port
PortTaken ==
    /\ PortFree
    /\ portTaken' = TRUE
    /\ UNCHANGED <<server, listeners, statusBar, lpc, lctl, cleanup, lstarted>>

\* the other process releases the port
PortReleased ==
    /\ portTaken
    /\ portTaken' = FALSE
    /\ UNCHANGED <<server, listeners, statusBar, lpc, lctl, cleanup, lstarted>>

InitLifecycle ==
    /\ server = NoServer
    /\ listeners = <<>>
    /\ portTaken = FALSE
    /\ statusBar = "unset"
    /\ lpc = [c \in Caller |-> "idle"]
    /\ lctl = [c \in Caller |-> NoLctl]
    /\ cleanup = {}
    /\ lstarted = 0

httpVars == <<upstream, defaultModel, lmAvailable, cachedModels, lastSelectedModel,
              pc, gm, calls, started, body, ctl, res, faulted, probed>>

-----------------------------------------------------------------------------
(* The resolver on its own: resolve calls from up to two tasks. *)

InitEnv ==
    /\ upstream \in UpstreamChoices
    /\ defaultModel \in DefaultModelChoices
    /\ lmAvailable \in BOOLEAN

\* No cached model, no request in flight, no listener.
InitState ==
    /\ cachedModels = [k \in {} |-> NoModel]
    /\ lastSelectedModel = NoModel
    /\ pc = [r \in Req |-> "idle"]
    /\ gm = [r \in Req |-> NoGm]
    /\ calls = [r \in Req |-> <<>>]
    /\ started = 0
    /\ body = [r \in Req |-> NoBody]
    /\ ctl = [r \in Req |-> NoCtl]
    /\ res = [r \in Req |-> NoRes]
    /\ faulted = FALSE
    /\ probed = {}
    /\ InitLifecycle

InitCommon == InitEnv /\ InitState

\* A task calls modelManager.getModel(preferredModelId).
ResolveCall(r) ==
    /\ pc[r] = "idle"
    /\ started < MaxStarted
    /\ started' = started + 1
    /\ \E preferred \in RequestedModels :
         gm' = [gm EXCEPT ![r] = [NoGm EXCEPT !.preferred = preferred]]
    /\ pc' = [pc EXCEPT ![r] = "gm_call"]
    /\ calls' = [calls EXCEPT ![r] = <<>>]
    /\ UNCHANGED <<lifecycleVars, envVars, cachedModels, lastSelectedModel, body, ctl, res, faulted,
                   probed>>

\* The caller takes the returned model (or the error) and finishes.
ResolveDone(r) ==
    /\ pc[r] \in {"gm_ret", "gm_fail"}
    /\ body[r].endpoint = None
    /\ pc' = [pc EXCEPT ![r] = "idle"]
    /\ gm' = [gm EXCEPT ![r] = NoGm]
    /\ calls' = [calls EXCEPT ![r] = <<>>]
    /\ UNCHANGED <<lifecycleVars, envVars, cachedModels, lastSelectedModel, started, body, ctl, res,
                   faulted, probed>>

NextResolver ==
    \E r \in Req :
        \/ ResolveCall(r)
        \/ GetModelStart(r)
        \/ GetModelSelect(r)
        \/ GetModelProbe(r)
        \/ GetModelCache(r)
        \/ ResolveDone(r)

SpecResolver == InitCommon /\ [][NextResolver]_vars

-----------------------------------------------------------------------------
(* POST /v1/chat/completions: requests served one after the other. *)

NextChat ==
    \E r \in {1} :
        \/ ChatReceive(r)
        \/ GetModelStart(r)
        \/ GetModelSelect(r)
        \/ GetModelProbe(r)
        \/ GetModelCache(r)
        \/ ChatModelUnavailable(r)
        \/ ChatSend(r)
        \/ ChatCountPrompt(r)
        \/ ChatStreamNext(r)
        \/ ChatStreamFinal(r)
        \/ ChatDrainNext(r)
        \/ ChatNonStreamFinish(r)
        \/ RequestEnd(r)

SpecChat == InitCommon /\ [][NextChat]_vars

-----------------------------------------------------------------------------
(* POST /v1/responses: requests served one after the other. *)

NextResponses ==
    \E r \in {1} :
        \/ ResponsesReceive(r)
        \/ GetModelStart(r)
        \/ GetModelSelect(r)
        \/ GetModelProbe(r)
        \/ GetModelCache(r)
        \/ ResponsesModelUnavailable(r)
        \/ ResponsesSend(r)
        \/ ResponsesCountPrompt(r)
        \/ ResponsesStreamNext(r)
        \/ ResponsesStreamFinal(r)
        \/ ResponsesDrainNext(r)
        \/ ResponsesNonStreamFinish(r)
        \/ RequestEnd(r)

SpecResponses == InitCommon /\ [][NextResponses]_vars

-----------------------------------------------------------------------------
(* The two stream handlers against one upstream list, or none: what they write
   does not depend on which model the resolver returned. *)

InitStreams ==
    /\ InitState
    /\ upstream \in { <<>>, <<Claude, Gpt5>> }
    /\ defaultModel = "claude-sonnet-4.5"
    /\ lmAvailable = TRUE

SpecChatStream == InitStreams /\ [][NextChat]_vars

SpecResponsesStream == InitStreams /\ [][NextResponses]_vars

-----------------------------------------------------------------------------
(* The server manager on its own: start() and stop() calls from two tasks. *)
InitServer ==
    /\ InitCommon
    /\ upstream = <<>>
    /\ defaultModel = ""
    /\ ~lmAvailable

NextServer ==
    \/ \E c \in Caller :
         /\ \/ StartCall(c)
            \/ StartStopped(c)
            \/ StartListen(c)
            \/ StartListening(c)
            \/ StartConflict(c)
            \/ StartError(c)
            \/ RecoverStopped(c)
            \/ RecoverRetry(c)
            \/ RecoverFailed(c)
            \/ StopCall(c)
            \/ StopStopped(c)
            \/ StopReturn(c)
         /\ UNCHANGED httpVars
    \/ \E l \in 1..Len(listeners) :
         /\ \/ CleanupDone(l)
            \/ CloseDone(l)
         /\ UNCHANGED httpVars
    \/ /\ \/ PortTaken
          \/ PortReleased
       /\ UNCHANGED httpVars

SpecServer == InitServer /\ [][NextServer]_vars

-----------------------------------------------------------------------------
(* The response formatter on its own: its functions applied to token counts. *)

TokenCounts == 0..MaxTokens

ResponseStatuses == {"in_progress", "completed", "failed", "incomplete"}

\* createChatCompletionResponse(modelId, responseText, promptTokens, completionTokens)
FormatChatCompletion ==
    /\ \E promptTokens, completionTokens \in TokenCounts, text \in FragChoices :
         res' = [res EXCEPT ![1] =
                    Json(NoRes, 200,
                         createChatCompletionResponse("gpt-5", text,
                                                      promptTokens, completionTokens))]
    /\ UNCHANGED <<lifecycleVars, envVars, resolverVars, pc, calls, started, body, ctl>>

\* createStreamChunk(modelId, fragment, isInitial, isFinal, usage)
FormatStreamChunk ==
    /\ \E promptTokens, completionTokens \in TokenCounts, text \in FragChoices,
          isInitial, isFinal, hasUsage \in BOOLEAN :
         res' = [res EXCEPT ![1] =
                    Write([NoRes EXCEPT !.sse = TRUE],
                          createStreamChunk("gpt-5", text, isInitial, isFinal,
                              IF hasUsage
                              THEN [present |-> TRUE, prompt_tokens |-> promptTokens,
                                    completion_tokens |-> completionTokens,
                                    total_tokens |-> 0]
                              ELSE NoUsage))]
    /\ UNCHANGED <<lifecycleVars, envVars, resolverVars, pc, calls, started, body, ctl>>

\* createResponseEnvelope(..., status, promptTokens, completionTokens, ..., options)
FormatResponseEnvelope ==
    /\ \E promptTokens, completionTokens \in TokenCounts, text \in FragChoices,
          status \in ResponseStatuses, includeOutput, hasOutputItems \in BOOLEAN :
         res' = [res EXCEPT ![1] =
                    Json(NoRes, 200,
                         createResponseEnvelope(ResponseId, "gpt-5", status,
                             promptTokens, completionTokens, <<>>, <<>>,
                             [NoOptions EXCEPT
                                 !.outputText = text,
                                 !.includeOutput = includeOutput,
                                 !.hasOutputItems = hasOutputItems,
                                 !.outputItems =
                                     IF hasOutputItems
                                     THEN << reasoningItem(<<>>, "completed"),
                                             messageItem("completed",
                                                 <<outputTextPart(text)>>) >>
                                     ELSE <<>>]))]
    /\ UNCHANGED <<lifecycleVars, envVars, resolverVars, pc, calls, started, body, ctl>>

NextFormatter ==
    \/ FormatChatCompletion
    \/ FormatStreamChunk
    \/ FormatResponseEnvelope

SpecFormatter == InitServer /\ [][NextFormatter]_vars

-----------------------------------------------------------------------------
(* Properties of the streams *)

EventNames(rs) == [i \in 1..Len(rs.writes) |-> rs.writes[i].name]

NonEmptyCount(frags) == Cardinality({i \in 1..Len(frags) : frags[i] # <<>>})

StreamHeadNames ==
    << "response.created", "response.in_progress", "response.output_item.added",
       "response.output_item.done", "response.output_item.added",
       "response.content_part.added" >>

StreamTailNames ==
    << "response.output_text.done", "response.content_part.done",
       "response.output_item.done", "response.completed" >>

ExpectedEventNames(n) ==
    StreamHeadNames \o [i \in 1..n |-> "response.output_text.delta"] \o StreamTailNames

\* A streamed /v1/responses request whose handling is over.
ResponsesStreamOver(r) ==
    body[r].endpoint = "responses" /\ pc[r] = "done" /\ res[r].sse

\* A streamed /v1/chat/completions request whose handling is over.
ChatStreamOver(r) ==
    body[r].endpoint = "chat" /\ pc[r] = "done" /\ res[r].sse

\* C1 as stated: whenever the upstream fragment sequence of a Responses stream
\* completed without error, the event names written are exactly the six head
\* events, one delta per non-empty fragment, and the four tail events ending
\* with response.completed, and the connection was then ended.
C1_EventOrderWhenDrained ==
    \A r \in Req :
        (ResponsesStreamOver(r) /\ ctl[r].drained) =>
            /\ EventNames(res[r]) = ExpectedEventNames(NonEmptyCount(ctl[r].upFrags))
            /\ res[r].ended = 1
            /\ res[r].late = 0

\* C1 amended: the same, for the runs in which the fragment sequence completed
\* without error and the completion token count did not raise either.
C1_EventOrder ==
    \A r \in Req :
        (ResponsesStreamOver(r) /\ ctl[r].drained /\ ctl[r].counted) =>
            /\ EventNames(res[r]) = ExpectedEventNames(NonEmptyCount(ctl[r].upFrags))
            /\ res[r].ended = 1
            /\ res[r].late = 0

C1_Witness ==
    \E r \in Req :
        /\ ResponsesStreamOver(r) /\ ctl[r].drained /\ ctl[r].counted
        /\ <<>> \in Range(ctl[r].upFrags)
        /\ NonEmptyCount(ctl[r].upFrags) >= 1

\* C2 as stated: in a Responses stream the k-th event written (from 0) carries
\* sequence_number k, whatever its type.
C2_EveryEventNumbered ==
    \A r \in Req :
        (body[r].endpoint = "responses" /\ res[r].sse) =>
            \A k \in 1..Len(res[r].writes) :
                res[r].writes[k].sequence_number = k - 1

\* C2 amended: every event other than the terminal `error` event carries the
\* sequence_number equal to its position from 0; the `error` event, written
\* last when there is one, carries no sequence_number.
C2_SequenceNumbers ==
    \A r \in Req :
        (body[r].endpoint = "responses" /\ res[r].sse) =>
            \A k \in 1..Len(res[r].writes) :
                IF res[r].writes[k].name = "error"
                THEN k = Len(res[r].writes) /\ res[r].writes[k].sequence_number = -1
                ELSE res[r].writes[k].sequence_number = k - 1

C2_Witness ==
    \E r \in Req :
        /\ ResponsesStreamOver(r)
        /\ Len(res[r].writes) = 12
        /\ res[r].writes[7].name = "response.output_text.delta"
        /\ res[r].writes[12].name = "response.completed"

IsChunk(w) == w.kind = "chunk"

IsRoleOnlyChunk(w) ==
    /\ IsChunk(w) /\ w.delta.role = "assistant" /\ ~w.delta.hasContent
    /\ w.finish_reason = None /\ ~w.usage.present

IsEmptyDeltaChunk(w) ==
    /\ IsChunk(w) /\ w.delta.role = None /\ ~w.delta.hasContent
    /\ w.finish_reason = None /\ ~w.usage.present

IsFragmentChunk(w, fragment) ==
    IF fragment = <<>>
    THEN IsEmptyDeltaChunk(w)
    ELSE /\ IsChunk(w) /\ w.delta.role = None
         /\ w.delta.hasContent /\ w.delta.content = fragment
         /\ w.finish_reason = None /\ ~w.usage.present

IsFinalChunk(w) ==
    /\ IsChunk(w) /\ w.delta.role = None /\ ~w.delta.hasContent
    /\ w.finish_reason = "stop" /\ w.usage.present

ReportedCompletionTokens(r) ==
    IF res[r].sse
    THEN res[r].writes[Len(res[r].writes) - 1].usage.completion_tokens
    ELSE res[r].writes[1].usage.completion_tokens

\* C4: a Chat request that ran to its usage report, streaming or not, reports
\* as completion tokens countTokens of the in-order concatenation of the
\* fragments the upstream yielded.
C4_CompletionTokensOfConcatenation ==
    \A r \in Req :
        (body[r].endpoint = "chat" /\ pc[r] = "done" /\ ctl[r].counted) =>
            ReportedCompletionTokens(r) = countTokens(Concat(ctl[r].upFrags))

-----------------------------------------------------------------------------
(* Properties of request validation *)

FirstWrite(r) == res[r].writes[1]

AnsweredWithError(r, status, message) ==
    /\ pc[r] = "done"
    /\ res[r].status = status
    /\ Len(res[r].writes) = 1
    /\ FirstWrite(r).kind = "error"
    /\ FirstWrite(r).message = message
    /\ res[r].ended = 1

UnsupportedMessage == "previous_response_id is not supported yet."

ValidationMessages ==
    { "Messages must be an array",
      "missing or invalid 'role' property",
      "missing or invalid 'content' property",
      "role must be 'system', 'user', or 'assistant'",
      "No input provided",
      UnsupportedMessage }

\* C6: a request that ended in a validation failure issued no upstream call
\* (no selectChatModels, no probe, no send) during its handling.
C6_ValidationBeforeUpstream ==
    \A r \in Req :
        (/\ pc[r] = "done"
         /\ Len(res[r].writes) = 1
         /\ FirstWrite(r).kind = "error"
         /\ FirstWrite(r).message \in ValidationMessages) =>
            calls[r] = <<>>

\* C7: a /v1/chat/completions body whose messages is not an array is answered
\* with a 400-class status and the message "Messages must be an array".
C7_NotArrayIs4xx ==
    \A r \in Req :
        (body[r].endpoint = "chat" /\ pc[r] = "done" /\ ~body[r].messages.isArray) =>
            /\ res[r].status \in 400..499
            /\ FirstWrite(r).kind = "error"
            /\ FirstWrite(r).message = "Messages must be an array"

-----------------------------------------------------------------------------
(* Properties of the resolver *)

Preset(r) == resolveModelPreset(gm[r].preferred)

\* The selector cascade yields a model for a base id: its exact-id selector
\* or its family selector has a non-empty result.
Yields(id) ==
    \/ selectChatModels([kind |-> "id", v |-> id], upstream) # <<>>
    \/ selectChatModels([kind |-> "family", v |-> id], upstream) # <<>>

FirstYieldingBase(preset) ==
    Find(preset.baseModelIds, {b \in Range(preset.baseModelIds) : Yields(b)}, None)

\* getModel of slot r returns in this step.
Returns(r) == pc[r] # "gm_ret" /\ pc'[r] = "gm_ret"

\* C8: while no upstream call has raised or failed, a resolve of a preset id
\* returns a model whose id or family is the first base id of the preset for
\* which the selector cascade yields a model.
C8_PresetBindsFirstBase ==
    \A r \in Req :
        (/\ pc[r] = "gm_ret"
         /\ ~faulted
         /\ Preset(r) # NoPreset
         /\ FirstYieldingBase(Preset(r)) # None) =>
            \/ gm[r].result.id = FirstYieldingBase(Preset(r))
            \/ gm[r].result.family = FirstYieldingBase(Preset(r))

PresetKeys(preset) == {preset.id} \cup Range(preset.baseModelIds)

PresetKeysCached(r) ==
    \A k \in PresetKeys(Preset(r))' :
        k \in DOMAIN cachedModels' /\ cachedModels'[k] = gm'[r].result

\* C9 as stated (without a configured default id): when a resolve of a preset
\* id returns, the cache maps the preset id and every base id of the preset to
\* the returned model.
C9_AliasesAfterAnyResolve ==
    [][\A r \in Req :
          (Returns(r) /\ Preset(r)' # NoPreset /\ defaultModel = "") =>
              PresetKeysCached(r)]_vars

\* C9 amended: when a resolve of a preset id returns after a fresh selection
\* (no cache hit), the cache maps the preset id and every base id of the
\* preset to the returned model.
C9_AliasesAfterFreshSelection ==
    [][\A r \in Req :
          (Returns(r) /\ Preset(r)' # NoPreset /\ ~gm'[r].hit) =>
              PresetKeysCached(r)]_vars

C9_Witness ==
    \E r \in Req :
        /\ pc[r] = "gm_ret" /\ ~gm[r].hit
        /\ gm[r].preferred = " GPT-5-High "
        /\ cachedModels["openai/gpt-5"] = gm[r].result

LookupIdsCached(r) ==
    {id \in Range(cacheLookupIds(gm[r].preferred, defaultModel)) :
        id \in DOMAIN cachedModels}

\* C10: when getModel reaches its cache lookup and some id of the lookup set
\* is in the cache, it returns in that step the model cached for one of these
\* ids, issues no upstream call, and leaves the cache as it was.
C10_CacheHitReturnsAtOnce ==
    [][\A r \in Req :
          (pc[r] = "gm_call" /\ pc'[r] # "gm_call" /\ LookupIdsCached(r) # {}) =>
              /\ pc'[r] = "gm_ret"
              /\ gm'[r].result \in {cachedModels[id] : id \in LookupIdsCached(r)}
              /\ cachedModels' = cachedModels
              /\ calls'[r] = calls[r]]_vars

C10_Witness ==
    \E r \in Req :
        /\ pc[r] = "gm_ret" /\ gm[r].hit
        /\ gm[r].preferred = " GPT-5-High "
        /\ "gpt-5-high" \notin DOMAIN cachedModels
        /\ calls[r] = <<>>

\* The connectivity probe of slot r fails in this step, and it is the first
\* probe of the call.
FirstProbeFails(r) ==
    /\ pc[r] = "gm_ready" /\ gm[r].probing
    /\ "probe" \notin Range(calls[r])
    /\ pc'[r] # "gm_ready"

\* C11: when the connectivity probe of the model picked from the first
\* non-empty selector result fails, getModel fails at once: it tries no later
\* selector, and the cache is as it was.
C11_FailedProbeAborts ==
    [][\A r \in Req :
          FirstProbeFails(r) => (pc'[r] = "gm_fail" /\ cachedModels' = cachedModels)]_vars

\* C12: once an id k is a key of the cache, no step of any resolve call
\* changes the model associated with k.
C12_CacheWritesIdempotent ==
    [][\A k \in DOMAIN cachedModels :
          k \in DOMAIN cachedModels' /\ cachedModels'[k] = cachedModels[k]]_vars

ProbeCount(r) == Cardinality({i \in 1..Len(calls[r]) : calls[r][i] = "probe"})

\* The keys under which getModel caches the model it selected for a request.
AliasKeys(preferred, model) ==
    {model.id, model.family}
    \cup (IF TrimmedPreferred(preferred) # "" THEN {TrimmedPreferred(preferred)} ELSE {})
    \cup (IF resolveModelPreset(preferred) # NoPreset
          THEN PresetKeys(resolveModelPreset(preferred)) ELSE {})

\* Slot q has returned from a fresh selection for the id that slot r, past its
\* own cache miss, is about to cache in this step; the two calls are the only
\* ones made so far.
SecondOfTwo(r, q) ==
    /\ q # r
    /\ started = 2
    /\ pc[q] = "gm_ret" /\ ~gm[q].hit
    /\ pc[r] = "gm_ready" /\ pc'[r] = "gm_ret"
    /\ gm[r].preferred = gm[q].preferred

\* C13: while no upstream call raises or fails, when two calls (the only ones
\* so far) resolve the same uncached id together, the second to finish
\* returns the model the first returned, its cache writes change nothing (the cache is the one the first
\* resolution alone produced, with every alias of the id mapped to that
\* model), and the two calls together issued at most two probes, one more
\* than a single resolution needs.
C13_ConcurrentSameId ==
    [][\A r, q \in Req :
          (SecondOfTwo(r, q) /\ ~faulted) =>
              /\ gm'[r].result = gm[q].result
              /\ cachedModels' = cachedModels
              /\ \A k \in AliasKeys(gm[r].preferred, gm[q].result) :
                     k \in DOMAIN cachedModels /\ cachedModels[k] = gm[q].result
              /\ ProbeCount(r)' + ProbeCount(q)' <= 2]_vars

C13_Witness ==
    /\ ~faulted
    /\ \A r \in Req : /\ pc[r] = "gm_ret" /\ ~gm[r].hit
                      /\ gm[r].preferred = " GPT-5-High "
                      /\ ProbeCount(r) = 1
    /\ gm[1].result = Gpt5Mini

-----------------------------------------------------------------------------
(* Properties of the server manager *)

\* a call of a caller returns at this step
CallReturns(c) == lpc[c] # "idle" /\ lpc'[c] = "idle"

\* the manager holds a listener that is bound
HoldsBound == server # NoServer /\ listeners[server].state = "bound"

\* C14: whenever start() issues app.listen, no listener the manager created
\* earlier is still bound: overlapping start() calls never bind a second time.
C14_NoSecondBind ==
    [][\A c \in Caller :
          (lpc[c] = "start_listen" /\ lpc'[c] = "start_wait") =>
              \A i \in 1..Len(listeners) : listeners[i].state # "bound"]_vars

\* C15: one start() call, its recovery included, attempts at most two binds
\* whatever the environment does: one recovery cycle, one retry.
C15_AtMostTwoBinds ==
    \A c \in Caller : lctl[c].binds <= 2

\* C16: stop() returns true only after the close of the listener it
\* stopped completed, and the manager then holds no server handle; stop()
\* without a server returns false and closes nothing.
C16_StopReturn ==
    [][\A c \in Caller :
          /\ (CallReturns(c) /\ lctl'[c].op = "stop" /\ lctl'[c].ret = "true") =>
                /\ listeners[lctl[c].waitL].state = "closed"
                /\ server' = NoServer
          /\ (lpc[c] = "idle" /\ lpc'[c] # "idle" /\ lctl'[c].op = "stop" /\ server = NoServer) =>
                /\ lpc'[c] = "stop_return" /\ lctl'[c].ret = "false"
                /\ listeners' = listeners
          /\ (CallReturns(c) /\ lctl[c].ret = "false") => lctl'[c].ret = "false"]_vars

\* no call is in flight and no detached cleanup is pending
Quiescent == (\A c \in Caller : lpc[c] = "idle") /\ cleanup = {}

\* C17: when a start() or stop() call completes, the status bar shows
\* `running` exactly when the manager holds a bound listener (isRunning() is
\* true); checked at the completions that leave no other call in flight.
C17_StatusMatches ==
    [][\A c \in Caller :
          (CallReturns(c) /\ Quiescent') =>
              /\ (statusBar' = "running") <=> HoldsBound'
              /\ (statusBar' = "running") <=> isRunning']_vars

-----------------------------------------------------------------------------
(* Properties of the formatter output *)

\* the envelope a written payload carries, if any
EnvelopeOf(w) ==
    IF w.kind = "response" THEN w
    ELSE IF w.kind = "event" /\ "response" \in DOMAIN w.data THEN w.data.response
    ELSE [kind |-> None]

\* every payload written so far
Written == UNION { Range(res[r].writes) : r \in Req }

\* C18: every usage object written has total = input + output: total_tokens =
\* prompt_tokens + completion_tokens in a chat completion and in a chat chunk,
\* total_tokens = input_tokens + output_tokens in a Responses envelope.
C18_UsageTotals ==
    \A w \in Written :
        /\ (w.kind \in {"chat.completion", "chunk"} /\ w.usage.present) =>
              w.usage.total_tokens = w.usage.prompt_tokens + w.usage.completion_tokens
        /\ (EnvelopeOf(w).kind = "response" /\ EnvelopeOf(w).usage.present) =>
              EnvelopeOf(w).usage.total_tokens =
                  EnvelopeOf(w).usage.input_tokens + EnvelopeOf(w).usage.output_tokens

C18_Witness ==
    \E w \in Written :
        /\ w.kind = "chat.completion"
        /\ w.usage.prompt_tokens = 2 /\ w.usage.completion_tokens = 1
        /\ w.usage.total_tokens = 3

\* C19: a Responses envelope written by the system has usage null only when its
\* status is in_progress and it carries no output; the envelopes built with
\* includeOutput false (response.created, response.in_progress) have output [],
\* output_text "" and usage null; an envelope with another status has usage.
C19_NullUsageOnlyInProgress ==
    \A w \in Written :
        EnvelopeOf(w).kind = "response" =>
            /\ ~EnvelopeOf(w).usage.present =>
                  /\ EnvelopeOf(w).status = "in_progress"
                  /\ EnvelopeOf(w).output = <<>>
                  /\ EnvelopeOf(w).output_text = <<>>
            /\ EnvelopeOf(w).status # "in_progress" => EnvelopeOf(w).usage.present
            /\ (w.kind = "event" /\ w.name \in {"response.created", "response.in_progress"}) =>
                  /\ EnvelopeOf(w).output = <<>>
                  /\ EnvelopeOf(w).output_text = <<>>
                  /\ ~EnvelopeOf(w).usage.present

C19_Witness ==
    /\ ResponsesStreamOver(1)
    /\ \E w \in Range(res[1].writes) :
           w.name = "response.created" /\ ~w.data.response.usage.present
    /\ \E w \in Range(res[1].writes) :
           /\ w.name = "response.completed"
           /\ w.data.response.usage.present
           /\ w.data.response.output_text = <<>>

\* an output list of exactly one reasoning item followed by one message item
ReasoningThenMessage(output) ==
    Len(output) = 2 /\ output[1].type = "reasoning" /\ output[2].type = "message"

\* C20 as stated: every envelope with status completed that is returned, as the
\* non-streaming body or in response.completed, has an output list of exactly
\* one reasoning item followed by exactly one message item.
C20_CompletedOutput ==
    \A w \in Written :
        (EnvelopeOf(w).kind = "response" /\ EnvelopeOf(w).status = "completed") =>
            ReasoningThenMessage(EnvelopeOf(w).output)

\* C20 amended: the completed envelope of a response.completed event has an
\* output list of exactly one reasoning item followed by exactly one message
\* item; the completed envelope of a non-streaming body has exactly one
\* message item and no reasoning item.
C20_CompletedOutputByPath ==
    \A w \in Written :
        (EnvelopeOf(w).kind = "response" /\ EnvelopeOf(w).status = "completed") =>
            IF w.kind = "event"
            THEN w.name = "response.completed" /\ ReasoningThenMessage(EnvelopeOf(w).output)
            ELSE Len(EnvelopeOf(w).output) = 1 /\ EnvelopeOf(w).output[1].type = "message"

C20_Witness ==
    /\ ResponsesStreamOver(1)
    /\ \E w \in Range(res[1].writes) :
           /\ w.name = "response.completed"
           /\ w.data.response.status = "completed"
           /\ Len(w.data.response.output) = 2
           /\ w.data.response.output_text = <<"a", "b", "c">>

-----------------------------------------------------------------------------
(* Properties of the Responses request path *)

\* the JSON body a non-streaming Responses request was answered with
CompletedBodies(r) ==
    { w \in Range(res[r].writes) :
        body[r].endpoint = "responses" /\ w.kind = "response" /\ w.status = "completed" }

\* C21: a non-streaming Responses request whose input is a string (for "ping"
\* and a four-character answer: input_tokens 4, output_tokens 4, total 8) is
\* answered by a completed envelope with exactly one output item, a message,
\* whose output_text is the concatenation of the upstream fragments, whose
\* output_tokens is the token count of that text and whose input_tokens is the
\* token count of the caller's input alone.
C21_InputTokensOfInputAlone ==
    \A r \in Req : \A w \in CompletedBodies(r) :
        body[r].input.type = "string" =>
            /\ Len(w.output) = 1 /\ w.output[1].type = "message"
            /\ w.output_text = Concat(ctl[r].upFrags)
            /\ w.usage.output_tokens = countTokens(w.output_text)
            /\ w.usage.input_tokens = countTokens(body[r].input.s)
            /\ w.usage.total_tokens = w.usage.input_tokens + w.usage.output_tokens

-----------------------------------------------------------------------------
(* The stream decision of /v1/responses on its own: shouldStream applied to
   values of the body field `stream` and of the three headers. *)

StreamValues ==
    { Absent, Null, Num, Bool(TRUE), Bool(FALSE),
      Str(<<"t", "r", "u", "e">>), Str(<<"T", "r", "u", "e">>), Str(<<"1">>),
      Str(<<"Y", "E", "S">>), Str(<<"o", "n">>),
      Str(<<"f", "a", "l", "s", "e">>), Str(<<"F", "A", "L", "S", "E">>),
      Str(<<"0">>), Str(<<"n", "o">>), Str(<<"O", "f", "f">>),
      Str(<<"m", "a", "y", "b", "e">>), Str(<<>>), Str(<<" ", "t", "r", "u", "e">>) }

HelperMethodValues ==
    { Absent, Str(TextStream), Str(<<"S", "t", "r", "e", "a", "m">>),
      Str(<<"p", "a", "r", "s", "e">>), Str(<<>>) }

OpenAiStreamValues ==
    { Absent, Str(<<"t", "r", "u", "e">>), Str(<<"T", "R", "U", "E">>),
      Str(<<"f", "a", "l", "s", "e">>), Str(<<"1">>) }

TextJson == <<"a", "p", "p", "l", "i", "c", "a", "t", "i", "o", "n", "/", "j", "s", "o", "n">>

AcceptValues ==
    { Absent, Str(TextEventStream), Str(TextJson),
      Str(TextJson \o <<",", " ">> \o TextEventStream),
      Str(<<"T", "e", "x", "t", "/", "E", "v", "e", "n", "t", "-", "S", "t", "r", "e", "a", "m">>
          \o <<" ", ",">> \o TextJson),
      Str(TextEventStream \o <<";", "q", "=", "1">>),
      Str(<<"*", "/", "*">>) }

\* handleResponse up to the stream decision, for one request.
DecideStream ==
    /\ pc[1] = "idle"
    /\ \E streamField \in StreamValues, helperMethod \in HelperMethodValues,
          openAiStream \in OpenAiStreamValues, accept \in AcceptValues :
         LET headers == [helperMethod |-> helperMethod, openAiStream |-> openAiStream,
                         accept |-> accept]
         IN /\ body' = [body EXCEPT ![1] =
                           [endpoint |-> "responses", stream |-> streamField,
                            headers |-> headers]]
            /\ ctl' = [ctl EXCEPT ![1] =
                          [NoCtl EXCEPT !.stream = shouldStream(streamField, headers)]]
    /\ pc' = [pc EXCEPT ![1] = "decided"]
    /\ UNCHANGED <<lifecycleVars, envVars, resolverVars, calls, started, res>>

SpecStreamDecision == InitServer /\ [][DecideStream]_vars

-----------------------------------------------------------------------------
(* Properties of the stream decision *)

Decided == pc[1] = "decided"

\* the value of a header, compared without regard to case, is the given word
HeaderIs(header, word) == header.type = "string" /\ toLowerCase(header.s) = word

\* the Accept header lists the media type among its comma-separated entries
AcceptLists(header, mediaType) ==
    /\ header.type = "string"
    /\ \E i, j \in 1..(Len(header.s) + 1) :
          /\ i <= j
          /\ i = 1 \/ header.s[i - 1] = ","
          /\ j = Len(header.s) + 1 \/ header.s[j] = ","
          /\ \A k \in i..(j - 1) : header.s[k] # ","
          /\ toLowerCase(trim(SubSeq(header.s, i, j - 1))) = mediaType

HeadersAskForStream(headers) ==
    \/ HeaderIs(headers.helperMethod, TextStream)
    \/ HeaderIs(headers.openAiStream, <<"t", "r", "u", "e">>)
    \/ AcceptLists(headers.accept, TextEventStream)

\* C22: the stream decision of a Responses request: a boolean `stream` field
\* decides alone; a string field decides when it is one of true, 1, yes, on
\* (stream) or false, 0, no, off (no stream), whatever its case; in every other
\* case the request streams exactly when x-stainless-helper-method is stream,
\* or x-openai-stream is true, or Accept lists text/event-stream, and does not
\* stream otherwise; an explicit stream: false is never overridden by headers.
C22_StreamDecision ==
    Decided =>
        LET field == body[1].stream
            word == toLowerCase(field.s)
        IN /\ field.type = "boolean" => (ctl[1].stream <=> field.b)
           /\ (field.type = "string" /\ word \in TruthyWords) => ctl[1].stream
           /\ (field.type = "string" /\ word \in FalsyWords) => ~ctl[1].stream
           /\ ~(\/ field.type = "boolean"
                \/ field.type = "string" /\ word \in TruthyWords \cup FalsyWords) =>
                 (ctl[1].stream <=> HeadersAskForStream(body[1].headers))
           /\ field = Bool(FALSE) => ~ctl[1].stream

\* an explicit stream: false with all three headers asking for a stream
C22_Witness ==
    /\ Decided
    /\ body[1].stream = Bool(FALSE)
    /\ HeaderIs(body[1].headers.helperMethod, TextStream)
    /\ HeaderIs(body[1].headers.openAiStream, <<"t", "r", "u", "e">>)
    /\ AcceptLists(body[1].headers.accept, TextEventStream)
    /\ ~ctl[1].stream

-----------------------------------------------------------------------------
(* Properties of the error paths of the two streams *)

\* the step in which the fragment sequence or the completion token count of
\* the Responses stream of request r raises
ResponsesStreamRaises(r) ==
    /\ body[r].endpoint = "responses"
    /\ \/ pc[r] = "resp_stream" /\ pc'[r] = "done"
       \/ pc[r] = "resp_final" /\ pc'[r] = "done" /\ ~ctl'[r].counted

ErrorEvents(rs) == { i \in DOMAIN rs.writes : rs.writes[i].name = "error" }

\* C23: when the fragment sequence or the token count raises at any point of a
\* Responses stream, exactly one `error` event carrying the formatted error
\* envelope is written after the events already emitted and the connection is
\* ended; no response.completed is written, nothing is written after the end,
\* and the HTTP status already sent (200) is not changed.
C23_StreamErrorEvent ==
    [][\A r \in Req :
         ResponsesStreamRaises(r) =>
            /\ res[r].sse /\ res[r].ended = 0 /\ res[r].status = 200
            /\ ErrorEvents(res[r]) = {}
            /\ res'[r].writes =
                  Append(res[r].writes,
                         Event("error", -1, createErrorResponse(Err("upstream error"))))
            /\ res'[r].writes[Len(res'[r].writes)].data.kind = "error"
            /\ "response.completed" \notin Range(EventNames(res'[r]))
            /\ res'[r].ended = 1 /\ res'[r].late = 0
            /\ res'[r].status = res[r].status]_vars

\* a Responses stream that ended with the error event after a delta and the
\* closing text events were emitted (the token count raised)
C23_Witness ==
    /\ ResponsesStreamOver(1)
    /\ ctl[1].drained /\ ~ctl[1].counted
    /\ \E i \in DOMAIN res[1].writes : res[1].writes[i].name = "response.output_text.delta"
    /\ res[1].writes[Len(res[1].writes)].name = "error"
    /\ res[1].ended = 1

\* the step in which the upstream raises while the Chat stream of request r is
\* drained, or in which its completion token count raises
ChatStreamRaises(r) ==
    /\ body[r].endpoint = "chat"
    /\ \/ pc[r] = "chat_stream" /\ pc'[r] = "done"
       \/ pc[r] = "chat_final" /\ pc'[r] = "done" /\ ~ctl'[r].counted

\* C24: when the upstream raises while a Chat stream is drained, the stream
\* handler writes exactly one `data:` chunk, the formatted error envelope, after
\* the chunks already written, and closes the response; no `data: [DONE]` line
\* and no final chunk with usage is written, and the status sent with the
\* first chunk is not sent again or changed.
C24_ChatStreamError ==
    [][\A r \in Req :
         ChatStreamRaises(r) =>
            /\ res[r].sse /\ res[r].ended = 0 /\ res[r].status = 200
            /\ \A w \in Range(res[r].writes) : w.kind # "error"
            /\ res'[r].writes =
                  Append(res[r].writes, createErrorResponse(Err("upstream error")))
            /\ DoneLine \notin Range(res'[r].writes)
            /\ \A w \in Range(res'[r].writes) : ~IsFinalChunk(w)
            /\ res'[r].ended = 1 /\ res'[r].late = 0
            /\ res'[r].status = res[r].status]_vars

\* a Chat stream closed by the error chunk after the role chunk and two
\* fragment chunks were written
C24_Witness ==
    /\ ChatStreamOver(1)
    /\ ~ctl[1].drained
    /\ Len(ctl[1].upFrags) = 2
    /\ Len(res[1].writes) = 4
    /\ res[1].writes[4].kind = "error"
    /\ res[1].ended = 1

-----------------------------------------------------------------------------
(* The input normalizer of /v1/responses on its own: buildMessages applied to
   values of the body fields `input`, `messages` and `instructions`. *)

TextInputText == <<"i", "n", "p", "u", "t", "_", "t", "e", "x", "t">>
TextOutputText == <<"o", "u", "t", "p", "u", "t", "_", "t", "e", "x", "t">>

\* Values of the `content` of a message.
ContentValues ==
    { Absent, Null, Num, Bool(FALSE), Str(TextHi), Str(<<>>),
      Arr(<< Str(<<"a">>), Obj([type |-> Str(TextInputText), input_text |-> Str(<<"b">>)]) >>),
      Arr(<< Str(<<>>), Null >>),
      Obj([text |-> Str(<<"t">>)]),
      Obj([type |-> Str(TextOutputText), output_text |-> Str(<<"o">>)]),
      Obj([type |-> Str(<<"t", "e", "x", "t">>), value |-> Str(<<"v">>)]),
      Obj([content |-> Arr(<< Str(<<"n">>), Arr(<< Str(<<"m">>) >>) >>)]),
      Obj([type |-> Str(<<"i", "m", "a", "g", "e">>)]) }

\* Values of the `role` of a message.
RoleValues ==
    { Absent, Num, Str(<<"u", "s", "e", "r">>),
      Str(<<"A", "s", "s", "i", "s", "t", "a", "n", "t">>),
      Str(<<"s", "y", "s", "t", "e", "m">>),
      Str(<<"d", "e", "v", "e", "l", "o", "p", "e", "r">>),
      Str(<<"T", "O", "O", "L">>), Str(<<"w", "i", "z", "a", "r", "d">>) }

MessageObjects ==
    { Obj([role |-> role, content |-> content]) :
          role \in RoleValues, content \in ContentValues }

\* Entries of an array of messages: three message objects with different
\* texts, one without text, and an entry that is not an object.
ArrayEntries ==
    { Obj([role |-> Str(<<"u", "s", "e", "r">>), content |-> Str(TextHi)]),
      Obj([role |-> Str(<<"A", "s", "s", "i", "s", "t", "a", "n", "t">>),
           content |-> Arr(<< Str(<<"a">>), Obj([text |-> Str(<<"b">>)]) >>)]),
      Obj([role |-> Str(<<"T", "O", "O", "L">>), content |-> Num]),
      Obj([role |-> Str(<<"u", "s", "e", "r">>), content |-> Str(<<>>)]),
      Str(<<"x">>) }

MessageArrays == UNION { [1..n -> ArrayEntries] : n \in 0..MaxMessages }

NormalizerInputs ==
    {Absent, Null, Num, Str(TextPing), Str(<<>>)}
    \cup MessageObjects \cup { Arr(entries) : entries \in MessageArrays }

NormalizerMessages ==
    {Absent, Str(TextHi), Obj([role |-> Str(<<"u", "s", "e", "r">>), content |-> Str(TextHi)])}
    \cup { Arr(entries) : entries \in MessageArrays }

NormalizerInstructions == {Absent, Str(<<"B", "e", " ", "b", "r", "i", "e", "f">>), Str(<<" ">>)}

\* handleResponse from the instruction text to buildMessages, for one request.
Normalize ==
    /\ pc[1] = "idle"
    /\ \E input \in NormalizerInputs, messagesField \in NormalizerMessages,
          instructions \in NormalizerInstructions :
         /\ body' = [body EXCEPT ![1] =
                        [endpoint |-> "responses", input |-> input,
                         messages |-> messagesField, instructions |-> instructions]]
         /\ ctl' = [ctl EXCEPT ![1] =
                       [NoCtl EXCEPT !.messages =
                           buildMessages(input, effectiveInstructionsOf(instructions),
                                         messagesField)]]
    /\ pc' = [pc EXCEPT ![1] = "normalized"]
    /\ UNCHANGED <<lifecycleVars, envVars, resolverVars, calls, started, res>>

SpecNormalizer == InitServer /\ [][Normalize]_vars

-----------------------------------------------------------------------------
(* Properties of the input normalizer *)

Normalized == pc[1] = "normalized"

\* the message an entry of a message array stands for
Candidate(entry) ==
    [role |-> normalizeRole(Field(entry, "role")),
     content |-> extractText(Field(entry, "content"))]

\* the messages an `input` value stands for, in its order
InputCandidates(input) ==
    IF input.type = "string" THEN << [role |-> "user", content |-> input.s] >>
    ELSE IF input.type = "array"
    THEN [i \in 1..Len(input.items) |-> Candidate(input.items[i])]
    ELSE IF input.type = "object" THEN << Candidate(input) >>
    ELSE <<>>

\* the messages a `messages` value stands for, in its order
FallbackCandidates(messagesField) ==
    IF messagesField.type = "array"
    THEN [i \in 1..Len(messagesField.items) |-> Candidate(messagesField.items[i])]
    ELSE <<>>

HasContent(message) == message.content # <<>>

\* a is b with some of its entries left out
RECURSIVE IsSubsequence(_, _)
IsSubsequence(a, b) ==
    IF Len(a) = 0 THEN TRUE
    ELSE IF Len(b) = 0 THEN FALSE
    ELSE IF Head(a) = Head(b) THEN IsSubsequence(Tail(a), Tail(b))
    ELSE IsSubsequence(a, Tail(b))

\* C25: the normalizer preserves order: the synthesized system message comes
\* first, then the messages parsed from `input` in their order, then the
\* fallback `messages` in their order; every entry with content is there, and
\* none is reordered or duplicated.
C25_OrderPreserved ==
    Normalized =>
        LET result == ctl[1].messages
            system == << [role |-> "system",
                          content |-> effectiveInstructionsOf(body[1].instructions)] >>
            candidates == InputCandidates(body[1].input)
                              \o FallbackCandidates(body[1].messages)
        IN /\ Len(result) >= 1
           /\ SubSeq(result, 1, 1) = system
           /\ IsSubsequence(Tail(result), candidates)
           /\ IsSubsequence(SelectSeq(candidates, HasContent), Tail(result))

\* the system message, the one message with content of an `input` array of
\* two entries, then the two messages of a `messages` array
C25_Witness ==
    /\ Normalized
    /\ body[1].input.type = "array" /\ Len(body[1].input.items) = 2
    /\ body[1].messages.type = "array" /\ Len(body[1].messages.items) = 2
    /\ Len(ctl[1].messages) = 4
    /\ ctl[1].messages[1].role = "system"
    /\ ctl[1].messages[2] = [role |-> "assistant", content |-> <<"a", "\n", "b">>]
    /\ ctl[1].messages[3] = [role |-> "system", content |-> <<"7">>]
    /\ ctl[1].messages[4] = [role |-> "user", content |-> TextHi]

\* C26: for every shape of `input` and of the fallback `messages`, every
\* message the normalizer produces has a role among system, user, assistant
\* and a non-empty flattened text as content; what is empty after flattening
\* is dropped.
C26_RolesAndContent ==
    Normalized =>
        \A i \in DOMAIN ctl[1].messages :
            /\ ctl[1].messages[i].role \in {"system", "user", "assistant"}
            /\ ctl[1].messages[i].content # <<>>

\* a Responses request of which neither `input` nor `messages` has an entry
\* with content
NoContentResolved(r) ==
    /\ body[r].endpoint = "responses"
    /\ \A i \in DOMAIN InputCandidates(body[r].input) :
           ~HasContent(InputCandidates(body[r].input)[i])
    /\ \A i \in DOMAIN FallbackCandidates(body[r].messages) :
           ~HasContent(FallbackCandidates(body[r].messages)[i])

\* C27: a /v1/responses request from which no content can be resolved (no
\* usable `input`, no usable `messages` entry, here no input and an empty
\* messages array) and that has no previous_response_id fails with "No input
\* provided": it is answered with status 400 and the error envelope, and
\* nothing is sent upstream for it.
C27_NoInputIs400 ==
    \A r \in Req :
        (NoContentResolved(r) /\ ~previousResponseIdGiven(body[r].previous_response_id)) =>
            /\ AnsweredWithError(r, 400, "No input provided")
            /\ calls[r] = <<>>

-----------------------------------------------------------------------------
(* GET /v1/models *)

CopilotGpt5 == [id |-> "gpt-5", family |-> "gpt-5", name |-> "GPT-5", vendor |-> "copilot"]
OpenRouterGpt5 ==
    [id |-> "openai/gpt-5", family |-> "gpt-5", name |-> "GPT-5", vendor |-> "openrouter"]
CopilotCodex ==
    [id |-> "gpt-5-codex", family |-> "gpt-5-codex", name |-> "GPT-5 Codex",
     vendor |-> "copilot"]
\* a discovered model whose id is the id of a preset
OtherGpt5High ==
    [id |-> "gpt-5-high", family |-> "gpt-5", name |-> "GPT-5 High", vendor |-> ""]
\* a model without id, listed under its family
FamilyOnlyClaude ==
    [id |-> "", family |-> "claude-sonnet-4.5", name |-> "Claude", vendor |-> "copilot"]

ModelPool == {CopilotGpt5, OpenRouterGpt5, CopilotCodex, OtherGpt5High, FamilyOnlyClaude}

\* Lists the upstream API may offer to the models route (fixed for one behaviour).
ModelsUpstreamChoices == UNION { [1..n -> ModelPool] : n \in 0..MaxModels }

\* Math.floor(Date.now() / 1000)
Times == 0..MaxClock

ModelSelectors == << [vendor |-> None], [vendor |-> "copilot"], [vendor |-> "openrouter"] >>

\* vscode.lm.selectChatModels(selector) of the models route when it does not raise
selectChatModelsByVendor(selector, up) ==
    IF selector.vendor = None THEN up
    ELSE SelectSeq(up, LAMBDA m : m.vendor = selector.vendor)

\* model.id || model.family || model.name
modelEntryId(model) ==
    IF model.id # "" THEN model.id
    ELSE IF model.family # "" THEN model.family ELSE model.name

\* modelMap.has(id); the map is the sequence of its values in insertion order
mapHas(modelMap, id) == \E i \in DOMAIN modelMap : modelMap[i].id = id

\* modelMap.get(id)
mapGet(modelMap, id) == modelMap[CHOOSE i \in DOMAIN modelMap : modelMap[i].id = id]

modelEntry(model, now) ==
    [id |-> modelEntryId(model), created |-> now,
     owned_by |-> IF model.vendor # "" THEN model.vendor ELSE "unknown",
     metadata |-> [name |-> model.name, family |-> model.family,
                   alias_for |-> None, preset_reasoning |-> None]]

\* for (const model of models): one entry per id not yet in the map
RECURSIVE addModels(_, _, _)
addModels(modelMap, models, now) ==
    IF Len(models) = 0 THEN modelMap
    ELSE addModels(IF modelEntryId(Head(models)) = ""
                      \/ mapHas(modelMap, modelEntryId(Head(models)))
                   THEN modelMap
                   ELSE Append(modelMap, modelEntry(Head(models), now)),
                   Tail(models), now)

\* for (const preset of MODEL_PRESETS): the synthetic entry of each preset
\* whose id is free and of which a base id is in the map
RECURSIVE addPresets(_, _)
addPresets(modelMap, presets) ==
    IF Len(presets) = 0 THEN modelMap
    ELSE LET preset == Head(presets)
             found == { i \in DOMAIN preset.baseModelIds :
                          mapHas(modelMap, preset.baseModelIds[i]) }
         IN IF mapHas(modelMap, preset.id) \/ found = {}
            THEN addPresets(modelMap, Tail(presets))
            ELSE LET first == CHOOSE i \in found : \A j \in found : i <= j
                     baseEntry == mapGet(modelMap, preset.baseModelIds[first])
                 IN addPresets(
                        Append(modelMap,
                               [baseEntry EXCEPT
                                   !.id = preset.id,
                                   !.metadata = [@ EXCEPT
                                       !.name = preset.displayName,
                                       !.alias_for = baseEntry.id,
                                       !.preset_reasoning = preset.effort]]),
                        Tail(presets))

\* The ids of the model in the order of String.prototype.localeCompare.
IdCollation ==
    << "claude-sonnet-4.5", "gpt-5", "gpt-5-codex", "gpt-5-codex-high",
       "gpt-5-codex-low", "gpt-5-codex-medium", "gpt-5-high", "gpt-5-low",
       "gpt-5-medium", "openai/gpt-5" >>

\* a.localeCompare(b): negative, zero or positive
localeCompare(a, b) ==
    (CHOOSE i \in DOMAIN IdCollation : IdCollation[i] = a)
    - (CHOOSE i \in DOMAIN IdCollation : IdCollation[i] = b)

RECURSIVE insertEntry(_, _)
insertEntry(sorted, entry) ==
    IF Len(sorted) = 0 THEN <<entry>>
    ELSE IF localeCompare(entry.id, Head(sorted).id) < 0 THEN <<entry>> \o sorted
    ELSE <<Head(sorted)>> \o insertEntry(Tail(sorted), entry)

\* The values of the map are returned in insertion order.
sortByIdLeftUnsorted(entries) == entries

\* Array.from(modelMap.values()).sort((a, b) => a.id.localeCompare(b.id))
RECURSIVE sortById(_)
sortById(entries) ==
    IF Len(entries) = 0 THEN <<>>
    ELSE insertEntry(sortById(SubSeq(entries, 1, Len(entries) - 1)),
                     entries[Len(entries)])

modelsError ==
    [kind |-> "error", message |-> "Error fetching available models", index |-> -1,
     type |-> "internal_server_error"]

\* GET /v1/models up to the first `await selectChatModels`; the call is
\* repeated by a client that has its answer to the call before.
ModelsReceive(r) ==
    /\ pc[r] = "idle"
    /\ \A q \in Req \ {r} : pc[q] \in {"idle", "done"}
    /\ started < MaxStarted
    /\ started' = started + 1
    /\ body' = [body EXCEPT ![r] = [endpoint |-> "models"]]
    /\ IF ~lmAvailable
       THEN /\ Fail(r, Json(NoRes, 500, modelsError))
            /\ UNCHANGED ctl
       ELSE /\ ctl' = [ctl EXCEPT ![r] = [modelMap |-> <<>>, selector |-> 1, outcomes |-> <<>>]]
            /\ res' = [res EXCEPT ![r] = NoRes]
            /\ pc' = [pc EXCEPT ![r] = "models_select"]
    /\ UNCHANGED <<lifecycleVars, envVars, resolverVars, calls>>

\* The presets, the sort and the answer, after the last selector.
modelsRespond(rs, modelMap) ==
    IF Len(modelMap) = 0 THEN Json(rs, 500, modelsError)
    ELSE Json(rs, 200, [kind |-> "list", data |-> sortById(addPresets(modelMap, MODEL_PRESETS))])

\* The outcome of one selectChatModels call (a list, or a raise that the loop
\* logs and passes over) and what follows it up to the next call or, after the
\* last selector, up to the answer.
ModelsSelect(r) ==
    /\ pc[r] = "models_select"
    /\ \E outcome \in {"models", "raise"}, now \in Times :
         LET selector == ModelSelectors[ctl[r].selector]
             modelMap == IF outcome = "models"
                         THEN addModels(ctl[r].modelMap,
                                        selectChatModelsByVendor(selector, upstream), now)
                         ELSE ctl[r].modelMap
         IN /\ ctl' = [ctl EXCEPT ![r].modelMap = modelMap,
                                  ![r].selector = @ + 1,
                                  ![r].outcomes = Append(@, outcome)]
            /\ IF ctl[r].selector = Len(ModelSelectors)
               THEN Fail(r, modelsRespond(res[r], modelMap))
               ELSE UNCHANGED <<pc, res>>
    /\ UNCHANGED <<lifecycleVars, envVars, resolverVars, calls, started, body>>

InitModels ==
    /\ InitState
    /\ upstream \in ModelsUpstreamChoices
    /\ defaultModel = ""
    /\ lmAvailable \in BOOLEAN

NextModels == \E r \in Req : ModelsReceive(r) \/ ModelsSelect(r)

SpecModels == InitModels /\ [][NextModels]_vars

-----------------------------------------------------------------------------
(* Properties of GET /v1/models *)

ModelsAnswered(r) == body[r].endpoint = "models" /\ pc[r] = "done" /\ res[r].status = 200

ListOf(r) == res[r].writes[1].data

\* the ids of the models that the selectors of call r returned
DiscoveredIds(r) ==
    { modelEntryId(upstream[i]) :
        i \in { j \in DOMAIN upstream :
                  \E k \in DOMAIN ModelSelectors :
                      /\ ctl[r].outcomes[k] = "models"
                      /\ \/ ModelSelectors[k].vendor = None
                         \/ ModelSelectors[k].vendor = upstream[j].vendor } } \ {""}

IsSynthetic(entry) == entry.metadata.alias_for # None

NoTwoOfOneId(data) == \A i, j \in DOMAIN data : data[i].id = data[j].id => i = j

AscendingById(data) ==
    \A i, j \in DOMAIN data : i < j => localeCompare(data[i].id, data[j].id) <= 0

\* the list holds a synthetic entry for a preset exactly when the preset id is
\* not a discovered id and one of its base ids is; there is one such entry, and
\* it is an alias for the first base id that is discovered
PresetEntries(r) ==
    /\ \A e \in Range(ListOf(r)) :
           IsSynthetic(e) => \E p \in Range(MODEL_PRESETS) : p.id = e.id
    /\ \A p \in Range(MODEL_PRESETS) :
           LET entries == { i \in DOMAIN ListOf(r) :
                              ListOf(r)[i].id = p.id /\ IsSynthetic(ListOf(r)[i]) }
               bases == { i \in DOMAIN p.baseModelIds :
                            p.baseModelIds[i] \in DiscoveredIds(r) }
           IN /\ entries # {} <=> (p.id \notin DiscoveredIds(r) /\ bases # {})
              /\ \A i \in entries :
                    /\ entries = {i}
                    /\ \E b \in bases :
                          /\ \A c \in bases : b <= c
                          /\ ListOf(r)[i].metadata.alias_for = p.baseModelIds[b]

WithoutCreated(data) == [i \in DOMAIN data |-> [data[i] EXCEPT !.created = 0]]

\* two answered calls that got the same outcome from every selector
SameDiscovery(r, q) ==
    ModelsAnswered(r) /\ ModelsAnswered(q) /\ ctl[r].outcomes = ctl[q].outcomes

\* C28 as stated: the list GET /v1/models returns has no two entries of the
\* same id, is sorted by id ascending, holds one synthetic entry for a preset
\* exactly when the preset id is not a discovered id and a base id of the
\* preset is discovered (alias of the first such base id), and is the same
\* list whenever the call is repeated against the same upstream discovery.
C28_ModelsListStable ==
    \A r \in Req :
        ModelsAnswered(r) =>
            /\ NoTwoOfOneId(ListOf(r))
            /\ AscendingById(ListOf(r))
            /\ PresetEntries(r)
            /\ \A q \in Req : SameDiscovery(r, q) => ListOf(r) = ListOf(q)

\* C28 amended: as above, but the repeated call returns the same list up to
\* the `created` field of its entries, which is the time of the call.
C28_ModelsList ==
    \A r \in Req :
        ModelsAnswered(r) =>
            /\ NoTwoOfOneId(ListOf(r))
            /\ AscendingById(ListOf(r))
            /\ PresetEntries(r)
            /\ \A q \in Req :
                  SameDiscovery(r, q) => WithoutCreated(ListOf(r)) = WithoutCreated(ListOf(q))

\* two answered calls with the same discovery: gpt-5 listed before its three
\* presets and openai/gpt-5, the lists differing in `created` only
C28_Witness ==
    /\ SameDiscovery(1, 2)
    /\ Len(ListOf(1)) = 5
    /\ ListOf(1)[1].id = "gpt-5" /\ ~IsSynthetic(ListOf(1)[1])
    /\ ListOf(1)[2].id = "gpt-5-high" /\ ListOf(1)[2].metadata.alias_for = "gpt-5"
    /\ ListOf(1)[5].id = "openai/gpt-5"
    /\ ListOf(1) # ListOf(2)
    /\ WithoutCreated(ListOf(1)) = WithoutCreated(ListOf(2))

-----------------------------------------------------------------------------
(* Properties of the texts of a Responses stream *)

\* the delta values of the delta events written, concatenated in order
RECURSIVE DeltaText(_)
DeltaText(writes) ==
    IF Len(writes) = 0 THEN <<>>
    ELSE (IF Head(writes).kind = "event"
             /\ Head(writes).name = "response.output_text.delta"
          THEN Head(writes).data.delta ELSE <<>>)
         \o DeltaText(Tail(writes))

EventsNamed(r, name) ==
    { w \in Range(res[r].writes) : w.kind = "event" /\ w.name = name }

\* a Responses stream that ended with response.completed
ResponsesStreamCompleted(r) ==
    /\ ResponsesStreamOver(r)
    /\ EventsNamed(r, "response.completed") # {}

\* C29: in a completed Responses stream the text of response.output_text.done,
\* the text of the part of response.content_part.done, the text of the message
\* item of the final response.output_item.done and output_text of the
\* response.completed envelope all equal the concatenation, in order, of the
\* delta values emitted in the stream, and usage.output_tokens of the completed
\* envelope is countTokens of that text.
C29_TextsAreTheDeltas ==
    \A r \in Req :
        ResponsesStreamCompleted(r) =>
            LET text == DeltaText(res[r].writes)
                n == Len(res[r].writes)
            IN /\ res[r].writes[n - 3].name = "response.output_text.done"
               /\ res[r].writes[n - 3].data.text = text
               /\ res[r].writes[n - 2].name = "response.content_part.done"
               /\ res[r].writes[n - 2].data.part.text = text
               /\ res[r].writes[n - 1].name = "response.output_item.done"
               /\ res[r].writes[n - 1].data.item.type = "message"
               /\ Len(res[r].writes[n - 1].data.item.content) = 1
               /\ res[r].writes[n - 1].data.item.content[1].text = text
               /\ res[r].writes[n].data.response.output_text = text
               /\ res[r].writes[n].data.response.usage.output_tokens = countTokens(text)
               /\ Cardinality(EventsNamed(r, "response.output_text.done")) = 1
               /\ Cardinality(EventsNamed(r, "response.content_part.done")) = 1

\* a completed stream of the two fragments "a" and "bc"
C29_Witness ==
    /\ ResponsesStreamCompleted(1)
    /\ Cardinality(EventsNamed(1, "response.output_text.delta")) = 2
    /\ DeltaText(res[1].writes) = <<"a", "b", "c">>
    /\ res[1].writes[Len(res[1].writes)].data.response.usage.output_tokens = 3

\* C30: every response.output_text.delta event carries as obfuscation the
\* base64 text of "<fragment>:<sequence_number>" built from the delta and the
\* sequence_number of that same event, and of nothing else.
C30_ObfuscationOfOwnDelta ==
    \A r \in Req : \A w \in EventsNamed(r, "response.output_text.delta") :
        w.data.obfuscation = [base64 |-> <<w.data.delta, ":", w.sequence_number>>]

\* two delta events of the same fragment, obfuscated differently because
\* their sequence numbers differ
C30_Witness ==
    \E v, w \in EventsNamed(1, "response.output_text.delta") :
        /\ v.data.delta = w.data.delta
        /\ v.sequence_number < w.sequence_number
        /\ v.data.obfuscation # w.data.obfuscation

-----------------------------------------------------------------------------
(* Chat completions with an empty `messages` array *)

EmptyChat(r) ==
    /\ body[r].endpoint = "chat"
    /\ body[r].messages = [isArray |-> TRUE, items |-> <<>>]

ReportsUsage(w) == w.kind \in {"chunk", "chat.completion"} /\ w.usage.present

\* C31: on /v1/chat/completions an empty `messages` array passes validation
\* (the request goes on to getModel), after getModel a send is issued upstream
\* with the empty message list, no prompt token count is asked of the model,
\* and every usage the request reports has prompt_tokens 0.
C31_EmptyMessagesProceed ==
    [][\A r \in Req :
         EmptyChat(r)' =>
           /\ (pc[r] = "idle" /\ pc'[r] # "idle") => pc'[r] = "gm_call"
           /\ (pc[r] = "gm_ret" /\ pc'[r] # "gm_ret") =>
                 /\ ctl[r].messages = <<>>
                 /\ calls'[r] = Append(calls[r], "send")
           /\ (pc[r] = "chat_sent" /\ pc'[r] # "chat_sent") =>
                 /\ calls'[r] = calls[r]
                 /\ pc'[r] # "done"
                 /\ ctl'[r].promptTokens = 0
           /\ \A i \in 1..Len(res'[r].writes) :
                 ReportsUsage(res'[r].writes[i]) =>
                     res'[r].writes[i].usage.prompt_tokens = 0]_vars

C31_Witness ==
    \E r \in Req :
        /\ EmptyChat(r)
        /\ pc[r] = "done"
        /\ calls[r] # <<>> /\ calls[r][Len(calls[r]) - 1] = "send"
        /\ \E i \in 1..Len(res[r].writes) :
              /\ ReportsUsage(res[r].writes[i])
              /\ res[r].writes[i].usage.prompt_tokens = 0
              /\ res[r].writes[i].usage.completion_tokens > 0

-----------------------------------------------------------------------------
(* The selector cascade of getModel, in environments chosen for it *)

\* The default id is absent, a model of the upstream that no request names,
\* or the id a request (and a preset) names; vscode.lm exists.
CascadeEnvironments ==
    { [upstream |-> <<>>, defaultModel |-> "claude-sonnet-4.5"],
      [upstream |-> <<Gpt5Mini, Claude>>, defaultModel |-> "claude-sonnet-4.5"],
      [upstream |-> <<Gpt5Mini, Gpt5>>, defaultModel |-> "gpt-5"],
      [upstream |-> <<Gpt5Mini, Gpt5>>, defaultModel |-> ""] }

InitCascade ==
    /\ InitState
    /\ lmAvailable = TRUE
    /\ \E env \in CascadeEnvironments :
          /\ upstream = env.upstream
          /\ defaultModel = env.defaultModel

SpecCascade == InitCascade /\ [][NextResolver]_vars

\* The candidate ids of a requested id: the base ids of its preset, else the id.
CandidateIds(preferred) ==
    IF resolveModelPreset(preferred) # NoPreset
    THEN resolveModelPreset(preferred).baseModelIds
    ELSE IF preferred = None THEN <<>> ELSE <<preferred>>

RECURSIVE ExactThenFamily(_)
ExactThenFamily(ids) ==
    IF ids = <<>> THEN <<>>
    ELSE << [kind |-> "id", v |-> Head(ids)], [kind |-> "family", v |-> Head(ids)] >>
         \o ExactThenFamily(Tail(ids))

\* The selector list as the cascade is described.
CascadeOf(preferred) ==
    ExactThenFamily(CandidateIds(preferred))
    \o (IF defaultModel # "" /\ defaultModel \notin Range(CandidateIds(preferred))
        THEN ExactThenFamily(<<defaultModel>>) ELSE <<>>)
    \o << [kind |-> "any", v |-> None] >>

SelectCount(r) == Cardinality({i \in 1..Len(calls[r]) : calls[r][i] = "select"})

\* The selector getModel of slot r is at in its loop.
SelectorTried(r) == buildSelectors(gm[r].preferred, defaultModel)[gm[r].idx]

RECURSIVE FirstOfIdOrFamily(_, _)
FirstOfIdOrFamily(models, id) ==
    IF models = <<>> THEN NoModel
    ELSE IF Head(models).id = id \/ Head(models).family = id THEN Head(models)
    ELSE FirstOfIdOrFamily(Tail(models), id)

\* The candidate id a selector comes from: the id it names; for the wildcard,
\* the first candidate id of the request (None when there is none).
OriginatingCandidate(selector, preferred) ==
    IF selector.kind # "any" THEN selector.v
    ELSE IF CandidateIds(preferred) # <<>> THEN CandidateIds(preferred)[1]
    ELSE None

PickWithin(models, candidate, dflt) ==
    IF candidate # None /\ FirstOfIdOrFamily(models, candidate) # NoModel
    THEN FirstOfIdOrFamily(models, candidate)
    ELSE IF dflt # "" /\ FirstOfIdOrFamily(models, dflt) # NoModel
    THEN FirstOfIdOrFamily(models, dflt)
    ELSE models[1]

\* The model the rule picks from the result of the selector the call is at.
PickOf(r) ==
    LET selector == CascadeOf(gm[r].preferred)[SelectCount(r)]
    IN PickWithin(selectChatModels(selector, upstream),
                  OriginatingCandidate(selector, gm[r].preferred), defaultModel)

\* C33: the model picked within a non-empty selector result, and returned by
\* a resolve that did not hit the cache, is the first model of the result
\* whose id or family is the originating candidate id; if there is none, the
\* first whose id or family is the default id; if there is none, the first
\* model of the result.
C33_PickWithinResult ==
    \A r \in Req :
        /\ pc[r] = "gm_ready" => gm[r].selected = PickOf(r)
        /\ (pc[r] = "gm_ret" /\ ~gm[r].hit) => gm[r].result = PickOf(r)

\* The wildcard result holds no model of the requested id; the model of the
\* default id is returned, not the first of the result.
C33_Witness ==
    \E r \in Req :
        /\ pc[r] = "gm_ret" /\ ~gm[r].hit
        /\ gm[r].preferred = "o3" /\ SelectCount(r) = 5
        /\ upstream = <<Gpt5Mini, Claude>>
        /\ gm[r].result = Claude

-----------------------------------------------------------------------------
(* Content flattening on its own: parseInput applied to a string and to one
   user message whose content is a value, an array of values or nested. *)

TextHello == <<"H", "e", "l", "l", "o">>
TextText == <<"t", "e", "x", "t">>

\* Values a content, or a part of a content array, may be.
ContentParts ==
    { Str(<<"A">>), Str(<<>>), Num, Bool(TRUE), Null,
      Obj([type |-> Str(TextText), text |-> Str(<<"A">>)]),
      Obj([type |-> Str(TextText), text |-> Str(<<"B">>)]),
      Obj([text |-> Str(<<>>), type |-> Str(TextInputText), input_text |-> Str(<<"x">>)]),
      Obj([text |-> Str(<<"T">>), type |-> Str(TextInputText), input_text |-> Str(<<"x">>),
           content |-> Arr(<< Str(<<"n">>) >>)]),
      Obj([type |-> Str(TextInputText), content |-> Str(<<"c">>)]),
      Obj([content |-> Arr(<< Str(<<"n">>), Str(<<>>), Str(<<"m">>) >>)]),
      Obj([type |-> Str(<<"i", "m", "a", "g", "e">>)]),
      Arr(<< Str(<<"B">>), Str(<<>>) >>) }

ContentArrays == UNION { [1..n -> ContentParts] : n \in 0..MaxParts }

FlattenInputs ==
    { Str(TextHello) }
    \cup { Obj([role |-> Str(<<"u", "s", "e", "r">>), content |-> content]) :
              content \in ContentParts \cup { Arr(parts) : parts \in ContentArrays } }

\* parseInput(input) for one request.
ParseInput ==
    /\ pc[1] = "idle"
    /\ \E input \in FlattenInputs :
         /\ body' = [body EXCEPT ![1] = [endpoint |-> "responses", input |-> input]]
         /\ ctl' = [ctl EXCEPT ![1] = [NoCtl EXCEPT !.messages = parseInput(input)]]
    /\ pc' = [pc EXCEPT ![1] = "parsed"]
    /\ UNCHANGED <<lifecycleVars, envVars, resolverVars, calls, started, res>>

SpecFlatten == InitServer /\ [][ParseInput]_vars

Parsed == pc[1] = "parsed"

\* the one user message with this content, none when the content is empty
UserMessageOf(text) ==
    IF text = <<>> THEN <<>> ELSE << [role |-> "user", content |-> text] >>

\* the texts, each followed by a newline
RECURSIVE Lines(_)
Lines(texts) == IF texts = <<>> THEN <<>> ELSE Head(texts) \o <<"\n">> \o Lines(Tail(texts))

\* the texts that are not empty, with one newline between two of them
NewlineJoined(texts) ==
    LET lines == Lines(SelectSeq(texts, LAMBDA t : t # <<>>))
    IN IF lines = <<>> THEN <<>> ELSE SubSeq(lines, 1, Len(lines) - 1)

\* C34: a string input yields one user message with that string as content
\* ("Hello" gives "Hello"); a message whose content is an array yields the
\* flattened texts of the elements, the empty ones skipped, joined with a
\* newline (the parts [text "A", text "B"] give "A\nB"), and no message when
\* nothing is left; an object that has a string `text` contributes that
\* string, whatever type-tagged field or nested `content` array it also has.
C34_ContentFlattening ==
    Parsed =>
        LET input == body[1].input
            content == Field(input, "content")
            result == ctl[1].messages
        IN /\ input.type = "string" =>
                 result = << [role |-> "user", content |-> input.s] >>
           /\ input = Str(TextHello) =>
                 result = << [role |-> "user", content |-> TextHello] >>
           /\ content.type = "array" =>
                 result = UserMessageOf(NewlineJoined(
                              [i \in 1..Len(content.items) |-> extractText(content.items[i])]))
           /\ content = Arr(<< Obj([type |-> Str(TextText), text |-> Str(<<"A">>)]),
                               Obj([type |-> Str(TextText), text |-> Str(<<"B">>)]) >>) =>
                 result = << [role |-> "user", content |-> <<"A", "\n", "B">>] >>
           /\ (content.type = "object" /\ Field(content, "text").type = "string") =>
                 result = UserMessageOf(Field(content, "text").s)

C34_Witness ==
    /\ Parsed
    /\ Field(body[1].input, "content") =
          Arr(<< Obj([type |-> Str(TextText), text |-> Str(<<"A">>)]),
                 Obj([type |-> Str(TextText), text |-> Str(<<"B">>)]) >>)
    /\ ctl[1].messages = << [role |-> "user", content |-> <<"A", "\n", "B">>] >>

\* C35: in a Responses stream the first two events are response.created and
\* response.in_progress and carry the identical envelope: status in_progress,
\* empty output, empty output_text and null usage; the response.completed
\* envelope, when the stream reaches it, has the same response id and the
\* same created_at.
C35_FirstTwoEnvelopes ==
    \A r \in Req :
        (body[r].endpoint = "responses" /\ res[r].sse) =>
            LET writes == res[r].writes
            IN /\ Len(writes) >= 2
               /\ writes[1].kind = "event" /\ writes[1].name = "response.created"
               /\ writes[2].kind = "event" /\ writes[2].name = "response.in_progress"
               /\ writes[2].data.response = writes[1].data.response
               /\ writes[1].data.response.status = "in_progress"
               /\ writes[1].data.response.output = <<>>
               /\ writes[1].data.response.output_text = <<>>
               /\ ~writes[1].data.response.usage.present
               /\ \A w \in EventsNamed(r, "response.completed") :
                     /\ w.data.response.id = writes[1].data.response.id
                     /\ w.data.response.created_at = writes[1].data.response.created_at

\* a completed stream with text, whose last envelope has output and usage
C35_Witness ==
    \E r \in Req :
        /\ ResponsesStreamCompleted(r)
        /\ res[r].writes[1].data.response.status = "in_progress"
        /\ \E w \in EventsNamed(r, "response.completed") :
              /\ w.data.response.output_text # <<>>
              /\ w.data.response.usage.present
              /\ w.data.response.created_at = res[r].writes[2].data.response.created_at

-----------------------------------------------------------------------------
(* Requests in flight together *)

\* Two tasks of the one server, the first serving /v1/chat/completions and
\* the second /v1/responses: non-streaming requests, each naming no model or
\* one that resolves to another model than the default, answered upstream
\* with an empty text.
NextConcurrent ==
    \E r \in Req :
        \/ /\ r = 1
           /\ ChatReceive(r)
           /\ body'[r].messages = [isArray |-> TRUE, items |-> <<MsgUser>>]
           /\ ~body'[r].stream
           /\ body'[r].model \in {None, "gpt-5"}
        \/ /\ r = 2
           /\ ResponsesReceive(r)
           /\ body'[r].input = Str(TextPing)
           /\ body'[r].previous_response_id = Absent
           /\ body'[r].stream = Bool(FALSE)
        \/ GetModelStart(r)
        \/ GetModelSelect(r)
        \/ GetModelProbe(r)
        \/ GetModelCache(r)
        \/ ChatModelUnavailable(r)
        \/ ResponsesModelUnavailable(r)
        \/ ChatSend(r)
        \/ ResponsesSend(r)
        \/ ChatCountPrompt(r)
        \/ ResponsesCountPrompt(r)
        \/ ChatDrainNext(r) /\ ctl'[r].upFrags = <<>>
        \/ ResponsesDrainNext(r) /\ ctl'[r].upFrags = <<>>
        \/ ChatNonStreamFinish(r)
        \/ ResponsesNonStreamFinish(r)
        \/ RequestEnd(r)

SpecConcurrent == InitStreams /\ [][NextConcurrent]_vars

-----------------------------------------------------------------------------
(* Listeners and the handle of the manager *)

\* C37: whenever a listener the manager created is bound to the port, the
\* manager holds its handle: this.server is that listener, isRunning() is
\* true and stop() can close it.
C37_BoundListenerHasHandle ==
    \A l \in 1..Len(listeners) :
        listeners[l].state = "bound" => (isRunning /\ server = l)

-----------------------------------------------------------------------------
(* What earlier resolves leave behind *)

\* the upstream offers a model whose id is the id the call names, no preset
OffersRequested(r) ==
    /\ gm[r].preferred # None
    /\ Preset(r) = NoPreset
    /\ \E i \in 1..Len(upstream) : upstream[i].id = gm[r].preferred

\* C38: while no upstream call has raised or failed, a resolve of a non-preset
\* id that is the id of a model the upstream offers returns that model,
\* whatever was resolved earlier by the same resolver.
C38_RequestedIdWins ==
    \A r \in Req :
        (pc[r] = "gm_ret" /\ ~faulted /\ OffersRequested(r)) =>
            gm[r].result.id = gm[r].preferred

\* C39: every model in the cache, and every model getModel returns, by a cache
\* hit or after a fresh selection, has the id of a model whose connectivity
\* probe succeeded earlier in the life of the resolver.
C39_ProbedBeforeUse ==
    /\ \A k \in DOMAIN cachedModels : cachedModels[k].id \in probed
    /\ lastSelectedModel # NoModel => lastSelectedModel.id \in probed
    /\ \A r \in Req : pc[r] = "gm_ret" => gm[r].result.id \in probed

\* a fresh selection returned without a probe of its own: the model has the id
\* of the one selected, and probed, for the call before
C39_Witness ==
    \E r \in Req :
        /\ pc[r] = "gm_ret" /\ ~gm[r].hit
        /\ ProbeCount(r) = 0
        /\ gm[r].result.id \in probed
        /\ gm[r].preferred = "o3" /\ "o3" \in DOMAIN cachedModels

-----------------------------------------------------------------------------
(* Requests of both endpoints, one at a time *)

NextStreams ==
    \E r \in {1} :
        \/ ChatReceive(r)
        \/ ResponsesReceive(r)
        \/ GetModelStart(r)
        \/ GetModelSelect(r)
        \/ GetModelProbe(r)
        \/ GetModelCache(r)
        \/ ChatModelUnavailable(r)
        \/ ResponsesModelUnavailable(r)
        \/ ChatSend(r)
        \/ ResponsesSend(r)
        \/ ChatCountPrompt(r)
        \/ ResponsesCountPrompt(r)
        \/ ChatStreamNext(r)
        \/ ResponsesStreamNext(r)
        \/ ChatStreamFinal(r)
        \/ ResponsesStreamFinal(r)
        \/ ChatDrainNext(r)
        \/ ResponsesDrainNext(r)
        \/ ChatNonStreamFinish(r)
        \/ ResponsesNonStreamFinish(r)
        \/ RequestEnd(r)

SpecStreams == InitStreams /\ [][NextStreams]_vars

\* the request in slot r asks for a stream
StreamingRequest(r) ==
    \/ body[r].endpoint = "chat" /\ body[r].stream
    \/ body[r].endpoint = "responses" /\ shouldStream(body[r].stream, NoHeaders)

\* C40: while a streaming request (Chat or Responses) is handled, and when
\* its handling is over, whether the upstream failed at some point or not:
\* the connection is never ended twice, nothing is written to it after it was
\* ended, and it is ended, once, exactly when the handling is over.
C40_EndedOnce ==
    \A r \in Req :
        StreamingRequest(r) =>
            /\ res[r].ended <= 1
            /\ res[r].late = 0
            /\ (pc[r] = "done") <=> (res[r].ended = 1)

\* a Chat stream that failed after its first fragment, and was ended once
C40_Witness ==
    \E r \in Req :
        /\ StreamingRequest(r) /\ body[r].endpoint = "chat"
        /\ pc[r] = "done" /\ res[r].sse
        /\ Len(res[r].writes) = 3
        /\ res[r].writes[3].kind = "error"
        /\ res[r].ended = 1

====
